---- MODULE Spec2Model ----
(***************************************************************************)
(* RP6502 emulator: the RIA register/portal engine (emu/src/ria.rs), the   *)
(* PIX channel and backchannel (emu/src/pix.rs, crossbeam unbounded        *)
(* channels created in emu/src/main.rs) and the VGA event loop             *)
(* (emu/src/vga/mod.rs), as two threads: the RIA thread walks a bus trace, *)
(* the VGA thread receives PIX events.                                     *)
(***************************************************************************)
EXTENDS Integers, Sequences, FiniteSets, TLC

VARIABLES
    overflow_checks, \* the build's overflow checks: "on" (dev profile), "off" (release),
                \* "unobserved" while no transaction has reached an overflow
    trace,      \* the bus trace the RIA thread iterates over (main.rs:64)
    idx,        \* number of trace entries the RIA loop has taken so far
    ria,        \* struct Ria (ria.rs:7-35)
    ria_pc,     \* RIA thread: "run", "done" (loop left, Ria dropped), "panicked"
    pix,        \* PIX channel RIA -> VGA: events sent and not yet received
    pix_open,   \* TRUE while the Sender<PixEvent> owned by Ria is alive
    back,       \* backchannel VGA -> RIA: messages sent and not yet received
    back_open,  \* TRUE while the Sender<Backchannel> owned by Vga is alive
    vga,        \* struct Vga (vga/mod.rs:75-86), without the scratch canvas_buf
    vga_pc,     \* VGA thread: "run", "done" (run() returned), or its place in a frame
    fb,         \* the shared framebuffer: what the last published frame was drawn from
    log,        \* history: one entry per processed bus transaction
    pix_sent,   \* history: every event ever sent on the PIX channel, in send order
    sent_by,    \* history: for each entry of pix_sent, the trace index that sent it
    vga_log,    \* history: one entry per event the VGA handled
    fb_mutex,   \* the Mutex around the framebuffer: "free", or the thread holding it
    pixels,     \* the GUI thread's last clone of the framebuffer, <<>> before the first
    fn_call     \* a library function applied on its own: its name, arguments and result

vars == <<overflow_checks, trace, idx, ria, ria_pc, pix, pix_open, back, back_open,
          vga, vga_pc, fb, log, pix_sent, sent_by, vga_log, fb_mutex, pixels,
          fn_call>>

-----------------------------------------------------------------------------
(* Program constants *)

XSTACK_SIZE == 512
phi2_freq == 8000000
RIA_BASE == 65504
U16 == 256 * 256

(* Arrays that the code zero-initialises ([0; N]) are kept as functions on  *)
(* the indices that hold a nonzero byte; every other index reads 0.         *)
Get(f, i) == IF i \in DOMAIN f THEN f[i] ELSE 0

Put(f, i, v) ==
    IF v = 0
    THEN [j \in (DOMAIN f) \ {i} |-> f[j]]
    ELSE [j \in (DOMAIN f) \cup {i} |-> IF j = i THEN v ELSE f[j]]

Zeroes == [j \in {} |-> 0]

(* u16::from_le_bytes([lo, hi]) *)
from_le_bytes(lo, hi) == lo + 256 * hi

(* u16::to_le_bytes: <<low byte, high byte>> *)
to_le_bytes(val) == <<val % 256, val \div 256>>

(* Mutant of step_as_u16: the step is zero-extended (`step as u16`). *)
step_zero_extended(b) == b

(* `step as i16 as u16`: the u8 register reinterpreted as i8, sign-extended *)
(* to 16 bits and reinterpreted as unsigned.                                *)
step_as_u16(b) == IF b >= 128 THEN 65280 + b ELSE b

(* u16::wrapping_add *)
wrapping_add(a, b) == (a + b) % U16

(* u8 bit operations used on the UART status register *)
or_0x80(b) == IF (b \div 128) % 2 = 1 THEN b ELSE b + 128
and_not_0x40(b) == IF (b \div 64) % 2 = 1 THEN b - 64 ELSE b

-----------------------------------------------------------------------------
(* bus.rs *)

BusWrite(cycle, addr, data) == [cycle |-> cycle, addr |-> addr, data |-> data, rw |-> FALSE]
BusRead(cycle, addr, data) == [cycle |-> cycle, addr |-> addr, data |-> data, rw |-> TRUE]

hits_ria(txn) == txn.addr >= RIA_BASE
ria_reg(txn) == txn.addr % 32

-----------------------------------------------------------------------------
(* pix.rs: the events *)

Xram(addr, data) == [type |-> "Xram", addr |-> addr, data |-> data]
Reg(channel, register, value) ==
    [type |-> "Reg", channel |-> channel, register |-> register, value |-> value]
FrameSync == [type |-> "FrameSync"]

Vsync(frame) == [type |-> "Vsync", frame |-> frame]
Ack == [type |-> "Ack"]
Nak == [type |-> "Nak"]

-----------------------------------------------------------------------------
(* ria.rs *)

cycles_per_frame == phi2_freq \div 60

(* Ria::reset *)
reset(r) ==
    LET zeroed == [i \in 0..31 |-> IF i < 16 /\ i # 3 THEN 0 ELSE r.regs[i]]
        x0 == Get(r.xram, 0)
    IN [r EXCEPT !.regs = [zeroed EXCEPT ![5] = 1, ![4] = x0, ![9] = 1, ![8] = x0],
                 !.xstack_ptr = XSTACK_SIZE,
                 !.irq_enabled = 0,
                 !.irq_pin = TRUE,
                 !.running = TRUE]

(* Ria::new *)
RiaNew ==
    reset([regs |-> [i \in 0..31 |-> 0],
           xram |-> Zeroes,
           xstack |-> Zeroes,
           xstack_ptr |-> XSTACK_SIZE,
           irq_enabled |-> 0,
           irq_pin |-> TRUE,
           cycle_count |-> 0,
           next_frame_cycle |-> cycles_per_frame,
           running |-> TRUE])

addr0(r) == from_le_bytes(r.regs[6], r.regs[7])
set_addr0(r, val) == [r EXCEPT !.regs[6] = to_le_bytes(val)[1], !.regs[7] = to_le_bytes(val)[2]]
step0(r) == r.regs[5]
addr1(r) == from_le_bytes(r.regs[10], r.regs[11])
set_addr1(r, val) == [r EXCEPT !.regs[10] = to_le_bytes(val)[1], !.regs[11] = to_le_bytes(val)[2]]
step1(r) == r.regs[9]

(* Mutant of refresh_rw: the RW mirrors are not refreshed. *)
refresh_rw_skipped(r) == r

(* Ria::refresh_rw *)
refresh_rw(r) ==
    LET r1 == [r EXCEPT !.regs[4] = Get(r.xram, addr0(r))]
    IN [r1 EXCEPT !.regs[8] = Get(r1.xram, addr1(r1))]

(* Mutant of api_return_ax: the return value is published but the top of   *)
(* stack mirror is left as it was.                                         *)
api_return_ax_keeps_mirror(r, val) ==
    [r EXCEPT !.regs[16] = 234,
              !.regs[17] = 128,
              !.regs[18] = 0,
              !.regs[19] = 169,
              !.regs[20] = val % 256,
              !.regs[21] = 162,
              !.regs[22] = val \div 256,
              !.regs[23] = 96]

(* Ria::api_return_ax *)
api_return_ax(r, val) ==
    LET r1 == [r EXCEPT !.regs[16] = 234,
                        !.regs[17] = 128,
                        !.regs[18] = 0,
                        !.regs[19] = 169,
                        !.regs[20] = val % 256,
                        !.regs[21] = 162,
                        !.regs[22] = val \div 256,
                        !.regs[23] = 96]
    IN [r1 EXCEPT !.regs[12] = Get(r1.xstack, r1.xstack_ptr)]

(* One call of Ria::process works on m = [ria, sent, panic]: the Ria struct, *)
(* the events it has sent on pix_tx so far, and whether the thread panicked. *)
Send(m, ev) == [m EXCEPT !.sent = Append(@, ev)]

(* Mutant of xreg_events: the events are sent in ascending register order. *)
xreg_events_ascending(r, channel, start_addr, count) ==
    [k \in 1..count |->
        LET i == k - 1
            offset == r.xstack_ptr + (count - 1 - i) * 2
        IN Reg(channel,
               (start_addr + i) % 256,
               from_le_bytes(Get(r.xstack, offset), Get(r.xstack, offset + 1)))]

(* The PixEvent::Reg values handle_xreg sends, in send order (ria.rs:416-428): *)
(* the k-th send (k = 1..count) is loop index i = count - k.                   *)
xreg_events(r, channel, start_addr, count) ==
    [k \in 1..count |->
        LET i == count - k
            offset == r.xstack_ptr + (count - 1 - i) * 2
        IN Reg(channel,
               (start_addr + i) % 256,
               from_le_bytes(Get(r.xstack, offset), Get(r.xstack, offset + 1)))]

(* `start_addr + i as u8` (ria.rs:422) is a u8 addition: it overflows when   *)
(* the sum passes 255; the first loop index, count - 1, is the largest.      *)
xreg_overflows(start_addr, count) == start_addr + (count - 1) > 255

(* Mutant of handle_xreg: a rejected xreg also empties the xstack. *)
handle_xreg_zxstack_on_error(m, checks) ==
    LET r == m.ria
        z == [r EXCEPT !.xstack_ptr = XSTACK_SIZE]
    IN
    IF r.xstack_ptr >= XSTACK_SIZE - 3
    THEN [m EXCEPT !.ria = api_return_ax(z, 65535)]
    ELSE
        LET device == Get(r.xstack, XSTACK_SIZE - 1)
            channel == Get(r.xstack, XSTACK_SIZE - 2)
            start_addr == Get(r.xstack, XSTACK_SIZE - 3)
            data_bytes == XSTACK_SIZE - r.xstack_ptr - 3
            count == data_bytes \div 2
        IN  IF data_bytes < 2 \/ data_bytes % 2 # 0 \/ device > 7 \/ channel > 15
            THEN [m EXCEPT !.ria = api_return_ax(z, 65535)]
            ELSE IF checks /\ xreg_overflows(start_addr, count)
            THEN [m EXCEPT !.panic = TRUE]
            ELSE [m EXCEPT
                    !.sent = @ \o xreg_events(r, channel, start_addr, count),
                    !.ria = api_return_ax(z, 0)]

(* Mutant of handle_xreg: only batches addressed to the VGA, device 1, are  *)
(* sent.                                                                    *)
handle_xreg_vga_only(m, checks) ==
    LET r == m.ria IN
    IF r.xstack_ptr >= XSTACK_SIZE - 3
    THEN [m EXCEPT !.ria = api_return_ax(r, 65535)]
    ELSE
        LET device == Get(r.xstack, XSTACK_SIZE - 1)
            channel == Get(r.xstack, XSTACK_SIZE - 2)
            start_addr == Get(r.xstack, XSTACK_SIZE - 3)
            data_bytes == XSTACK_SIZE - r.xstack_ptr - 3
            count == data_bytes \div 2
        IN  IF data_bytes < 2 \/ data_bytes % 2 # 0 \/ device > 7 \/ channel > 15
            THEN [m EXCEPT !.ria = api_return_ax(r, 65535)]
            ELSE IF checks /\ xreg_overflows(start_addr, count)
            THEN [m EXCEPT !.panic = TRUE]
            ELSE [m EXCEPT
                    !.sent = IF device = 1
                             THEN @ \o xreg_events(r, channel, start_addr, count)
                             ELSE @,
                    !.ria = api_return_ax([r EXCEPT !.xstack_ptr = XSTACK_SIZE], 0)]

(* Ria::handle_xreg; checks = the build has overflow checks *)
handle_xreg(m, checks) ==
    LET r == m.ria IN
    IF r.xstack_ptr >= XSTACK_SIZE - 3
    THEN [m EXCEPT !.ria = api_return_ax(r, 65535)]
    ELSE
        LET device == Get(r.xstack, XSTACK_SIZE - 1)
            channel == Get(r.xstack, XSTACK_SIZE - 2)
            start_addr == Get(r.xstack, XSTACK_SIZE - 3)
            data_bytes == XSTACK_SIZE - r.xstack_ptr - 3
            count == data_bytes \div 2
        IN  IF data_bytes < 2 \/ data_bytes % 2 # 0 \/ device > 7 \/ channel > 15
            THEN [m EXCEPT !.ria = api_return_ax(r, 65535)]
            ELSE IF checks /\ xreg_overflows(start_addr, count)
            THEN [m EXCEPT !.panic = TRUE]
            ELSE [m EXCEPT
                    !.sent = @ \o xreg_events(r, channel, start_addr, count),
                    !.ria = api_return_ax([r EXCEPT !.xstack_ptr = XSTACK_SIZE], 0)]

(* Mutant of handle_op: OP 0xFF leaves the RIA running. *)
handle_op_exit_ignored(m, op, checks) ==
    CASE op = 0 ->
            [m EXCEPT !.ria = api_return_ax(
                [m.ria EXCEPT !.regs[12] = 0, !.xstack_ptr = XSTACK_SIZE], 0)]
      [] op = 1 -> handle_xreg(m, checks)
      [] op = 255 -> m
      [] OTHER -> [m EXCEPT !.ria = api_return_ax(m.ria, 65535)]

(* Mutant of handle_op: an unknown OP returns 0. *)
handle_op_returns_zero(m, op, checks) ==
    CASE op = 0 ->
            [m EXCEPT !.ria = api_return_ax(
                [m.ria EXCEPT !.regs[12] = 0, !.xstack_ptr = XSTACK_SIZE], 0)]
      [] op = 1 -> handle_xreg(m, checks)
      [] op = 255 -> [m EXCEPT !.ria.running = FALSE]
      [] OTHER -> [m EXCEPT !.ria = api_return_ax(m.ria, 0)]

(* Ria::handle_op *)
handle_op(m, op, checks) ==
    CASE op = 0 ->
            [m EXCEPT !.ria = api_return_ax(
                [m.ria EXCEPT !.regs[12] = 0, !.xstack_ptr = XSTACK_SIZE], 0)]
      [] op = 1 -> handle_xreg(m, checks)
      [] op = 255 -> [m EXCEPT !.ria.running = FALSE]
      [] OTHER -> [m EXCEPT !.ria = api_return_ax(m.ria, 65535)]

(* Mutant of xstack_push: the push is not guarded by xstack_ptr > 0. *)
xstack_push_unguarded(r, data) ==
    LET r1 == [r EXCEPT !.xstack_ptr = r.xstack_ptr - 1,
                        !.xstack = Put(r.xstack, r.xstack_ptr - 1, data)]
    IN [r1 EXCEPT !.regs[12] = Get(r1.xstack, r1.xstack_ptr)]

(* The XSTACK push arm of handle_write (ria.rs:240-246) *)
xstack_push(r, data) ==
    LET r1 == IF r.xstack_ptr > 0
              THEN [r EXCEPT !.xstack_ptr = r.xstack_ptr - 1,
                             !.xstack = Put(r.xstack, r.xstack_ptr - 1, data)]
              ELSE r
    IN [r1 EXCEPT !.regs[12] = Get(r1.xstack, r1.xstack_ptr)]

(* Mutant of write_rw0: the event carries the address after the increment. *)
write_rw0_postinc(m, data) ==
    LET r == m.ria
        addr == addr0(r)
        new_addr == wrapping_add(addr, step_as_u16(step0(r)))
        r1 == [r EXCEPT !.xram = Put(r.xram, addr, data)]
    IN [Send(m, Xram(new_addr, data)) EXCEPT !.ria = set_addr0(r1, new_addr)]

(* The RW0 / RW1 arms of handle_write (ria.rs:190-197, 215-222) *)
write_rw0(m, data) ==
    LET r == m.ria
        addr == addr0(r)
        r1 == [r EXCEPT !.xram = Put(r.xram, addr, data)]
    IN [Send(m, Xram(addr, data)) EXCEPT
            !.ria = set_addr0(r1, wrapping_add(addr, step_as_u16(step0(r1))))]

(* Mutant of write_rw1: the byte is stored and no event is sent. *)
write_rw1_silent(m, data) ==
    LET r == m.ria
        addr == addr1(r)
        r1 == [r EXCEPT !.xram = Put(r.xram, addr, data)]
    IN [m EXCEPT !.ria = set_addr1(r1, wrapping_add(addr, step_as_u16(step1(r1))))]

(* The RW1 arm of handle_write *)
write_rw1(m, data) ==
    LET r == m.ria
        addr == addr1(r)
        r1 == [r EXCEPT !.xram = Put(r.xram, addr, data)]
    IN [Send(m, Xram(addr, data)) EXCEPT
            !.ria = set_addr1(r1, wrapping_add(addr, step_as_u16(step1(r1))))]

(* Mutant of handle_write: a write to 0xFFF0 leaves the IRQ line as it is. *)
handle_write_keeps_irq(m, txn, checks) ==
    LET data == txn.data
        reg == ria_reg(txn)
        r == m.ria
    IN CASE reg = 1 -> [m EXCEPT !.ria.regs[0] = or_0x80(@)]
         [] reg = 4 -> write_rw0(m, data)
         [] reg = 8 -> write_rw1(m, data)
         [] reg = 12 -> [m EXCEPT !.ria = xstack_push(r, data)]
         [] reg = 15 -> handle_op([m EXCEPT !.ria.regs[15] = data], data, checks)
         [] reg = 16 -> [m EXCEPT !.ria.irq_enabled = data]
         [] OTHER -> [m EXCEPT !.ria.regs[reg] = data]

(* Ria::handle_write *)
handle_write(m, txn, checks) ==
    LET data == txn.data
        reg == ria_reg(txn)
        r == m.ria
    IN CASE reg = 1 -> [m EXCEPT !.ria.regs[0] = or_0x80(@)]
         [] reg = 4 -> write_rw0(m, data)
         [] reg = 8 -> write_rw1(m, data)
         [] reg = 12 -> [m EXCEPT !.ria = xstack_push(r, data)]
         [] reg = 15 -> handle_op([m EXCEPT !.ria.regs[15] = data], data, checks)
         [] reg = 16 -> [m EXCEPT !.ria.irq_enabled = data, !.ria.irq_pin = TRUE]
         [] OTHER -> [m EXCEPT !.ria.regs[reg] = data]

(* The XSTACK pop arm of handle_read (ria.rs:332-339): <<new Ria, byte returned>> *)
(* Mutant of xstack_pop: regs[0x0C] is not reloaded with the new top. *)
xstack_pop_stale_top(r) ==
    LET r1 == IF r.xstack_ptr < XSTACK_SIZE
              THEN [r EXCEPT !.xstack_ptr = r.xstack_ptr + 1]
              ELSE r
    IN <<r1, r.regs[12]>>

(* Mutant of xstack_pop: the pop is not guarded by xstack_ptr < XSTACK_SIZE. *)
xstack_pop_unguarded(r) ==
    LET r1 == [r EXCEPT !.xstack_ptr = r.xstack_ptr + 1]
    IN <<[r1 EXCEPT !.regs[12] = Get(r1.xstack, r1.xstack_ptr)], r.regs[12]>>

xstack_pop(r) ==
    LET r1 == IF r.xstack_ptr < XSTACK_SIZE
              THEN [r EXCEPT !.xstack_ptr = r.xstack_ptr + 1]
              ELSE r
    IN <<[r1 EXCEPT !.regs[12] = Get(r1.xstack, r1.xstack_ptr)], r.regs[12]>>

(* The RW0 / RW1 arms of handle_read (ria.rs:312-327) *)
read_rw0(r) ==
    <<set_addr0(r, wrapping_add(addr0(r), step_as_u16(step0(r)))), r.regs[4]>>

read_rw1(r) ==
    <<set_addr1(r, wrapping_add(addr1(r), step_as_u16(step1(r)))), r.regs[8]>>

(* Ria::handle_read: <<new Ria, byte returned>> *)
handle_read(r, txn) ==
    LET reg == ria_reg(txn)
    IN CASE reg = 0 ->
                LET r1 == [r EXCEPT !.regs[0] = and_not_0x40(or_0x80(@))]
                IN <<r1, r1.regs[0]>>
         [] reg = 2 -> <<[r EXCEPT !.regs[0] = and_not_0x40(@), !.regs[2] = 0], 0>>
         [] reg = 4 -> read_rw0(r)
         [] reg = 8 -> read_rw1(r)
         [] reg = 12 -> xstack_pop(r)
         [] reg = 16 -> <<[r EXCEPT !.irq_pin = TRUE], r.regs[16]>>
         [] OTHER -> <<r, r.regs[reg]>>

(* Ria::poll_backchannel: try_recv until Empty or Disconnected.  q is what  *)
(* the channel holds, open whether the Vga still owns its sender.           *)
RECURSIVE drain_backchannel(_, _)
drain_backchannel(r, q) ==
    IF q = <<>> THEN r
    ELSE LET msg == Head(q)
             r1 == IF msg.type = "Vsync"
                   THEN [r EXCEPT !.regs[3] = msg.frame,
                                  !.irq_pin = IF r.irq_enabled % 2 # 0 THEN FALSE ELSE @]
                   ELSE r
         IN drain_backchannel(r1, Tail(q))

(* Mutant of poll_backchannel: a drained message halts the RIA. *)
poll_backchannel_halts(r, q, open) ==
    LET r1 == drain_backchannel(r, q)
    IN IF open /\ q = <<>> THEN r1 ELSE [r1 EXCEPT !.running = FALSE]

poll_backchannel(r, q, open) ==
    LET r1 == drain_backchannel(r, q)
    IN IF open THEN r1 ELSE [r1 EXCEPT !.running = FALSE]

(* Ria::process, first part (ria.rs:129-134): the cycle count and the frame *)
(* boundary.  crossed(r, txn) tells whether the boundary branch is taken.   *)
crossed(r, txn) == txn.cycle >= r.next_frame_cycle

process_frame(r, txn) ==
    IF crossed(r, txn)
    THEN [r EXCEPT !.cycle_count = txn.cycle,
                   !.next_frame_cycle = @ + cycles_per_frame]
    ELSE [r EXCEPT !.cycle_count = txn.cycle]

(* Mutant of process_dispatch: a transaction outside the RIA returns 0. *)
process_dispatch_drops_data(r, txn, checks) ==
    LET r1 == refresh_rw(r)
        m == [ria |-> r1, sent |-> <<>>, panic |-> FALSE]
    IN IF ~hits_ria(txn)
       THEN [ria |-> r1, sent |-> <<>>, panic |-> FALSE, ret |-> 0]
       ELSE IF txn.rw
       THEN LET rd == handle_read(r1, txn)
            IN [ria |-> rd[1], sent |-> <<>>, panic |-> FALSE, ret |-> rd[2]]
       ELSE LET w == handle_write(m, txn, checks)
            IN [ria |-> w.ria, sent |-> w.sent, panic |-> w.panic, ret |-> txn.data]

(* Ria::process, from the refresh on (ria.rs:139-151): [ria, sent, panic, ret] *)
process_dispatch(r, txn, checks) ==
    LET r1 == refresh_rw(r)
        m == [ria |-> r1, sent |-> <<>>, panic |-> FALSE]
    IN IF ~hits_ria(txn)
       THEN [ria |-> r1, sent |-> <<>>, panic |-> FALSE, ret |-> txn.data]
       ELSE IF txn.rw
       THEN LET rd == handle_read(r1, txn)
            IN [ria |-> rd[1], sent |-> <<>>, panic |-> FALSE, ret |-> rd[2]]
       ELSE LET w == handle_write(m, txn, checks)
            IN [ria |-> w.ria, sent |-> w.sent, panic |-> w.panic, ret |-> txn.data]

-----------------------------------------------------------------------------
(* vga/mode1.rs, vga/mode2.rs, vga/mode3.rs: formats and config structures. *)
(* A format is kept as the attribute value that selects it; a config is     *)
(* kept as the bytes of the structure, in XRAM order.                       *)

Mode1Format_from_attr(attr) == attr \in {0, 1, 2, 3, 4, 8, 9, 10, 11, 12}
Mode2Format_from_attr(attr) == attr \in {0, 1, 2, 3, 8, 9, 10, 11}
ColorFormat_from_attr(attr) == attr \in {0, 1, 2, 3, 4, 8, 9, 10}

(* ModeNConfig::from_xram: the size bytes at ptr, or the all-zero config    *)
(* when the structure would pass the end of XRAM.                           *)
config_from_xram(xram, ptr, size) ==
    IF ptr + size > 65536
    THEN [k \in 1..size |-> 0]
    ELSE [k \in 1..size |-> Get(xram, ptr + k - 1)]

Mode1Config_from_xram(xram, ptr) == config_from_xram(xram, ptr, 16)
Mode2Config_from_xram(xram, ptr) == config_from_xram(xram, ptr, 16)
Mode3Config_from_xram(xram, ptr) == config_from_xram(xram, ptr, 14)

-----------------------------------------------------------------------------
(* vga/mod.rs *)

None == [mode |-> 0]

Plane(mode, config, format, scanline_begin, scanline_end, config_ptr) ==
    [mode |-> mode, config |-> config, format |-> format,
     scanline_begin |-> scanline_begin, scanline_end |-> scanline_end,
     config_ptr |-> config_ptr]

(* Vga::new *)
VgaNew ==
    [xram |-> Zeroes,
     planes |-> [i \in 0..2 |-> None],
     canvas_width |-> 640,
     canvas_height |-> 480,
     xregs |-> [i \in 0..7 |-> 0],
     frame_count |-> 0]

(* Vga::program_mode1 *)
program_mode1(v) ==
    LET attr == v.xregs[2]
        config_ptr == v.xregs[3]
        plane_idx == v.xregs[4]
    IN IF plane_idx >= 3 \/ config_ptr % 2 # 0 THEN v
       ELSE IF config_ptr + 16 > 65536 THEN v
       ELSE IF ~Mode1Format_from_attr(attr) THEN v
       ELSE [v EXCEPT !.planes[plane_idx] =
                Plane(1, Mode1Config_from_xram(v.xram, config_ptr), attr,
                      v.xregs[5], v.xregs[6], config_ptr)]

(* Mutant of program_mode2: scanline_begin and scanline_end are exchanged. *)
program_mode2_exchanged(v) ==
    LET attr == v.xregs[2]
        config_ptr == v.xregs[3]
        plane_idx == v.xregs[4]
    IN IF plane_idx >= 3 \/ config_ptr % 2 # 0 THEN v
       ELSE IF config_ptr + 16 > 65536 THEN v
       ELSE IF ~Mode2Format_from_attr(attr) THEN v
       ELSE [v EXCEPT !.planes[plane_idx] =
                Plane(2, Mode2Config_from_xram(v.xram, config_ptr), attr,
                      v.xregs[6], v.xregs[5], config_ptr)]

(* Vga::program_mode2 *)
program_mode2(v) ==
    LET attr == v.xregs[2]
        config_ptr == v.xregs[3]
        plane_idx == v.xregs[4]
    IN IF plane_idx >= 3 \/ config_ptr % 2 # 0 THEN v
       ELSE IF config_ptr + 16 > 65536 THEN v
       ELSE IF ~Mode2Format_from_attr(attr) THEN v
       ELSE [v EXCEPT !.planes[plane_idx] =
                Plane(2, Mode2Config_from_xram(v.xram, config_ptr), attr,
                      v.xregs[5], v.xregs[6], config_ptr)]

(* Mutant of program_mode3: an invalid attribute empties the addressed slot. *)
program_mode3_drops_plane(v) ==
    LET attr == v.xregs[2]
        config_ptr == v.xregs[3]
        plane_idx == v.xregs[4]
    IN IF plane_idx >= 3 \/ config_ptr % 2 # 0 THEN v
       ELSE IF ~ColorFormat_from_attr(attr) THEN [v EXCEPT !.planes[plane_idx] = None]
       ELSE [v EXCEPT !.planes[plane_idx] =
                Plane(3, Mode3Config_from_xram(v.xram, config_ptr), attr,
                      v.xregs[5], v.xregs[6], config_ptr)]

(* Vga::program_mode3 *)
program_mode3(v) ==
    LET attr == v.xregs[2]
        config_ptr == v.xregs[3]
        plane_idx == v.xregs[4]
    IN IF plane_idx >= 3 \/ config_ptr % 2 # 0 THEN v
       ELSE IF ~ColorFormat_from_attr(attr) THEN v
       ELSE [v EXCEPT !.planes[plane_idx] =
                Plane(3, Mode3Config_from_xram(v.xram, config_ptr), attr,
                      v.xregs[5], v.xregs[6], config_ptr)]

(* Mutant of canvas_size: values 1 and 2 select each other's canvas. *)
canvas_size_swapped(value) ==
    CASE value = 1 -> <<320, 180>>
      [] value = 2 -> <<320, 240>>
      [] value = 3 -> <<640, 480>>
      [] value = 4 -> <<640, 360>>
      [] OTHER -> <<640, 480>>

(* The register 0 (CANVAS) arm of handle_reg: <<width, height>> *)
canvas_size(value) ==
    CASE value = 1 -> <<320, 240>>
      [] value = 2 -> <<320, 180>>
      [] value = 3 -> <<640, 480>>
      [] value = 4 -> <<640, 360>>
      [] OTHER -> <<640, 480>>

(* Mutant of handle_reg: an unknown mode value leaves the staging array. *)
handle_reg_keeps_staging(v, reg) ==
    IF reg.channel # 0 THEN [vga |-> v, out |-> <<>>]
    ELSE
        LET v1 == IF reg.register < 8
                  THEN [v EXCEPT !.xregs[reg.register] = reg.value]
                  ELSE v
            cleared == [i \in 0..7 |-> 0]
        IN CASE reg.register = 0 ->
                    [vga |-> [v1 EXCEPT !.canvas_width = canvas_size(reg.value)[1],
                                        !.canvas_height = canvas_size(reg.value)[2],
                                        !.planes = [i \in 0..2 |-> None],
                                        !.xregs = cleared],
                     out |-> <<Ack>>]
             [] reg.register = 1 ->
                    CASE reg.value = 1 ->
                            [vga |-> [program_mode1(v1) EXCEPT !.xregs = cleared],
                             out |-> <<Ack>>]
                      [] reg.value = 2 ->
                            [vga |-> [program_mode2(v1) EXCEPT !.xregs = cleared],
                             out |-> <<Ack>>]
                      [] reg.value = 3 ->
                            [vga |-> [program_mode3(v1) EXCEPT !.xregs = cleared],
                             out |-> <<Ack>>]
                      [] OTHER ->
                            [vga |-> [v1 EXCEPT !.xregs[1] = 0], out |-> <<Nak>>]
             [] OTHER -> [vga |-> v1, out |-> <<>>]

(* Mutant of handle_reg: the channel of the event is not looked at. *)
handle_reg_any_channel(v, reg) ==
    LET v1 == IF reg.register < 8
              THEN [v EXCEPT !.xregs[reg.register] = reg.value]
              ELSE v
        cleared == [i \in 0..7 |-> 0]
    IN CASE reg.register = 0 ->
                [vga |-> [v1 EXCEPT !.canvas_width = canvas_size(reg.value)[1],
                                    !.canvas_height = canvas_size(reg.value)[2],
                                    !.planes = [i \in 0..2 |-> None],
                                    !.xregs = cleared],
                 out |-> <<Ack>>]
         [] reg.register = 1 ->
                CASE reg.value = 1 ->
                        [vga |-> [program_mode1(v1) EXCEPT !.xregs = cleared],
                         out |-> <<Ack>>]
                  [] reg.value = 2 ->
                        [vga |-> [program_mode2(v1) EXCEPT !.xregs = cleared],
                         out |-> <<Ack>>]
                  [] reg.value = 3 ->
                        [vga |-> [program_mode3(v1) EXCEPT !.xregs = cleared],
                         out |-> <<Ack>>]
                  [] OTHER ->
                        [vga |-> [v1 EXCEPT !.xregs = cleared], out |-> <<Nak>>]
         [] OTHER -> [vga |-> v1, out |-> <<>>]

(* Vga::handle_reg: [vga, out], out the backchannel messages it sends *)
handle_reg(v, reg) ==
    IF reg.channel # 0 THEN [vga |-> v, out |-> <<>>]
    ELSE
        LET v1 == IF reg.register < 8
                  THEN [v EXCEPT !.xregs[reg.register] = reg.value]
                  ELSE v
            cleared == [i \in 0..7 |-> 0]
        IN CASE reg.register = 0 ->
                    [vga |-> [v1 EXCEPT !.canvas_width = canvas_size(reg.value)[1],
                                        !.canvas_height = canvas_size(reg.value)[2],
                                        !.planes = [i \in 0..2 |-> None],
                                        !.xregs = cleared],
                     out |-> <<Ack>>]
             [] reg.register = 1 ->
                    CASE reg.value = 1 ->
                            [vga |-> [program_mode1(v1) EXCEPT !.xregs = cleared],
                             out |-> <<Ack>>]
                      [] reg.value = 2 ->
                            [vga |-> [program_mode2(v1) EXCEPT !.xregs = cleared],
                             out |-> <<Ack>>]
                      [] reg.value = 3 ->
                            [vga |-> [program_mode3(v1) EXCEPT !.xregs = cleared],
                             out |-> <<Ack>>]
                      [] OTHER ->
                            [vga |-> [v1 EXCEPT !.xregs = cleared], out |-> <<Nak>>]
             [] OTHER -> [vga |-> v1, out |-> <<>>]

(* Mutant of fresh_plane: the frame is drawn from the configuration read at *)
(* MODE time.                                                               *)
fresh_plane_stale(xram, p) == p

(* Vga::render_frame publishes a display buffer computed from the canvas    *)
(* size, the programmed planes (each with its config re-read from the XRAM  *)
(* mirror at config_ptr) and the XRAM mirror.  The published buffer is kept *)
(* as those inputs.                                                         *)
fresh_plane(xram, p) ==
    CASE p.mode = 1 -> [p EXCEPT !.config = Mode1Config_from_xram(xram, p.config_ptr)]
      [] p.mode = 2 -> [p EXCEPT !.config = Mode2Config_from_xram(xram, p.config_ptr)]
      [] p.mode = 3 -> [p EXCEPT !.config = Mode3Config_from_xram(xram, p.config_ptr)]
      [] OTHER -> p

render_frame(v) ==
    [w |-> v.canvas_width,
     h |-> v.canvas_height,
     planes |-> [i \in 0..2 |-> fresh_plane(v.xram, v.planes[i])],
     xram |-> v.xram]

(* Mutant of handle_event: an Xram event is stored one byte too high. *)
handle_event_off_by_one(v, event) ==
    CASE event.type = "Xram" ->
            [vga |-> [v EXCEPT !.xram = Put(v.xram, (event.addr + 1) % 65536, event.data)],
             out |-> <<>>, frame |-> <<>>]
      [] event.type = "Reg" ->
            LET h == handle_reg(v, event)
            IN [vga |-> h.vga, out |-> h.out, frame |-> <<>>]
      [] event.type = "FrameSync" ->
            LET n == (v.frame_count + 1) % 256
            IN [vga |-> [v EXCEPT !.frame_count = n],
                out |-> <<Vsync(128 + (n % 16))>>,
                frame |-> <<render_frame(v)>>]

(* Mutant of handle_event: the Vsync carries the frame count before the increment. *)
handle_event_stale_count(v, event) ==
    CASE event.type = "Xram" ->
            [vga |-> [v EXCEPT !.xram = Put(v.xram, event.addr, event.data)],
             out |-> <<>>, frame |-> <<>>]
      [] event.type = "Reg" ->
            LET h == handle_reg(v, event)
            IN [vga |-> h.vga, out |-> h.out, frame |-> <<>>]
      [] event.type = "FrameSync" ->
            LET n == (v.frame_count + 1) % 256
            IN [vga |-> [v EXCEPT !.frame_count = n],
                out |-> <<Vsync(128 + (v.frame_count % 16))>>,
                frame |-> <<render_frame(v)>>]

(* Vga::handle_event: [vga, out, frame]; frame is <<the buffer>> when one   *)
(* is published, <<>> otherwise.                                            *)
handle_event(v, event) ==
    CASE event.type = "Xram" ->
            [vga |-> [v EXCEPT !.xram = Put(v.xram, event.addr, event.data)],
             out |-> <<>>, frame |-> <<>>]
      [] event.type = "Reg" ->
            LET h == handle_reg(v, event)
            IN [vga |-> h.vga, out |-> h.out, frame |-> <<>>]
      [] event.type = "FrameSync" ->
            LET n == (v.frame_count + 1) % 256
            IN [vga |-> [v EXCEPT !.frame_count = n],
                out |-> <<Vsync(128 + (n % 16))>>,
                frame |-> <<render_frame(v)>>]

-----------------------------------------------------------------------------
(* ria_api.rs: the trace builder.  An item is one TraceBuilder::write (or a *)
(* read) preceded by `wait` calls of wait_frames(1).                        *)

MaxTxn == 3
MaxCalls == 2
NearFull == 2

WAIT_CYCLES == 200000

W(addr, data, wait) == [rw |-> FALSE, addr |-> addr, data |-> data, wait |-> wait]
R(addr, wait) == [rw |-> TRUE, addr |-> addr, data |-> 0, wait |-> wait]

(* TraceBuilder::write / wait_frames: the cycle stamp is the builder's      *)
(* cycle counter, which each write advances by one.                         *)
RECURSIVE stamp(_, _)
stamp(items, cycle) ==
    IF items = <<>> THEN <<>>
    ELSE LET it == Head(items)
             c == cycle + it.wait * WAIT_CYCLES
         IN <<[cycle |-> c, addr |-> it.addr, data |-> it.data, rw |-> it.rw]>>
            \o stamp(Tail(items), c + 1)

RECURSIVE Flatten(_)
Flatten(ss) == IF ss = <<>> THEN <<>> ELSE Head(ss) \o Flatten(Tail(ss))

-----------------------------------------------------------------------------
(* main.rs: the two threads *)

(* No library function is being applied on its own. *)
NoCall == [fn |-> "none", args |-> <<>>, ret |-> <<>>, prev |-> <<>>]

(* starts: the states the run may start from, [trace, ria, vga, back]:      *)
(* the bus trace still to process, the Ria and the Vga, and the messages    *)
(* waiting on the backchannel.  The PIX channel is empty.                   *)
InitAt(starts) ==
    /\ overflow_checks = "unobserved"
    /\ \E st \in starts :
          trace = st.trace /\ ria = st.ria /\ vga = st.vga /\ back = st.back
    /\ idx = 0
    /\ ria_pc = "run"
    /\ pix = <<>>
    /\ pix_open = TRUE
    /\ back_open = TRUE
    /\ vga_pc = "run"
    /\ fb = <<>>
    /\ log = <<>>
    /\ pix_sent = <<>>
    /\ sent_by = <<>>
    /\ vga_log = <<>>
    /\ fb_mutex = "free"
    /\ pixels = <<>>
    /\ fn_call = NoCall

(* starts: the <<bus trace, Ria>> pairs the run may start from, the Vga new *)
InitWith(starts) ==
    InitAt({[trace |-> st[1], ria |-> st[2], vga |-> VgaNew, back |-> <<>>] :
                st \in starts})

(* The RIA loop (main.rs:65-70) takes the next transaction while running. *)
RiaHasNext == ria_pc = "run" /\ idx < Len(trace) /\ ria.running

(* process() up to the FrameSync it sends when the cycle count reaches the  *)
(* frame boundary; the backchannel is polled in the next step, so that the  *)
(* VGA may already have answered.                                           *)
RiaFrame ==
    /\ RiaHasNext
    /\ crossed(ria, trace[idx + 1])
    /\ ria' = process_frame(ria, trace[idx + 1])
    /\ ria_pc' = "poll"
    /\ pix' = Append(pix, FrameSync)
    /\ pix_sent' = Append(pix_sent, FrameSync)
    /\ sent_by' = Append(sent_by, idx + 1)
    /\ UNCHANGED <<fb_mutex, pixels, fn_call>>
    /\ UNCHANGED <<overflow_checks, trace, idx, pix_open, back, back_open, vga, vga_pc, fb,
                   log, vga_log>>

(* The builds a run can still be of: the build is fixed before the run, and *)
(* it shows only when a transaction reaches an overflowing addition.        *)
Builds(observed) ==
    CASE observed = "on" -> {TRUE}
      [] observed = "off" -> {FALSE}
      [] OTHER -> BOOLEAN

(* The rest of process(): poll_backchannel after a FrameSync, refresh, and  *)
(* the read or write handler.  A panic unwinds the thread and drops the Ria *)
(* with its PIX sender.                                                     *)
RiaTxn ==
    /\ \/ RiaHasNext /\ ~crossed(ria, trace[idx + 1])
       \/ ria_pc = "poll"
    /\ \E checks \in Builds(overflow_checks) :
        LET txn == trace[idx + 1]
            polled == ria_pc = "poll"
            r0 == IF polled
                  THEN poll_backchannel(ria, back, back_open)
                  ELSE process_frame(ria, txn)
            d == process_dispatch(r0, txn, checks)
        IN /\ ria' = d.ria
           /\ overflow_checks' =
                 IF process_dispatch(r0, txn, TRUE) = process_dispatch(r0, txn, FALSE)
                 THEN overflow_checks
                 ELSE IF checks THEN "on" ELSE "off"
           /\ back' = IF polled THEN <<>> ELSE back
           /\ pix' = pix \o d.sent
           /\ pix_sent' = pix_sent \o d.sent
           /\ sent_by' = sent_by \o [k \in 1..Len(d.sent) |-> idx + 1]
           /\ ria_pc' = IF d.panic THEN "panicked" ELSE "run"
           /\ pix_open' = ~d.panic
           /\ log' = Append(log, [kind |-> "txn", txn |-> txn, pre |-> r0, post |-> d.ria,
                                  ret |-> d.ret, frame |-> polled,
                                  sent |-> d.sent, panic |-> d.panic])
    /\ idx' = idx + 1
    /\ UNCHANGED <<fb_mutex, pixels, fn_call>>
    /\ UNCHANGED <<trace, back_open, vga, vga_pc, fb, vga_log>>

(* Mutant of RiaExit: the loop ends but the Ria keeps its PIX sender. *)
RiaExit_keeps_sender ==
    /\ ria_pc = "run"
    /\ idx = Len(trace) \/ ~ria.running
    /\ ria_pc' = "done"
    /\ pix_open' = pix_open
    /\ UNCHANGED <<fb_mutex, pixels, fn_call>>
    /\ UNCHANGED <<overflow_checks, trace, idx, ria, pix, back, back_open, vga, vga_pc, fb,
                   log, pix_sent, sent_by, vga_log>>

(* The loop ends (trace exhausted or running cleared): the closure returns  *)
(* and the Ria, with pix_tx, is dropped (main.rs:71).                       *)
RiaExit ==
    /\ ria_pc = "run"
    /\ idx = Len(trace) \/ ~ria.running
    /\ ria_pc' = "done"
    /\ pix_open' = FALSE
    /\ UNCHANGED <<fb_mutex, pixels, fn_call>>
    /\ UNCHANGED <<overflow_checks, trace, idx, ria, pix, back, back_open, vga, vga_pc, fb,
                   log, pix_sent, sent_by, vga_log>>

(* Vga::run: recv() yields the next event. A backchannel send after the RIA *)
(* has dropped its receiver fails and is ignored (`let _ =`).               *)
VgaRecv ==
    /\ vga_pc = "run"
    /\ pix # <<>>
    /\ LET h == handle_event(vga, Head(pix))
       IN /\ vga' = h.vga
          /\ back' = IF ria_pc \in {"done", "panicked"} THEN back ELSE back \o h.out
          /\ fb' = IF h.frame = <<>> THEN fb ELSE h.frame
          /\ vga_log' = Append(vga_log, [event |-> Head(pix), pre |-> vga, out |-> h.out])
    /\ pix' = Tail(pix)
    /\ UNCHANGED <<fb_mutex, pixels, fn_call>>
    /\ UNCHANGED <<overflow_checks, trace, idx, ria, ria_pc, pix_open, back_open, vga_pc,
                   log, pix_sent, sent_by>>

(* Mutant of VgaExit: run() returns as soon as the sender is dropped, with  *)
(* events still queued.                                                     *)
VgaExit_early ==
    /\ vga_pc = "run"
    /\ ~pix_open
    /\ vga_pc' = "done"
    /\ back_open' = FALSE
    /\ UNCHANGED <<fb_mutex, pixels, fn_call>>
    /\ UNCHANGED <<overflow_checks, trace, idx, ria, ria_pc, pix, pix_open, back, vga, fb,
                   log, pix_sent, sent_by, vga_log>>

(* Mutant of VgaExit: run() returns, and the backchannel sender is dropped, *)
(* whenever the PIX channel is empty, also while the Ria holds its sender.  *)
VgaExit_while_connected ==
    /\ vga_pc = "run"
    /\ pix = <<>>
    /\ vga_pc' = "done"
    /\ back_open' = FALSE
    /\ UNCHANGED <<fb_mutex, pixels, fn_call>>
    /\ UNCHANGED <<overflow_checks, trace, idx, ria, ria_pc, pix, pix_open, back, vga, fb,
                   log, pix_sent, sent_by, vga_log>>

(* Vga::run: recv() fails once the channel is empty and the sender dropped; *)
(* run() returns and the Vga, with backchannel_tx, is dropped.              *)
VgaExit ==
    /\ vga_pc = "run"
    /\ pix = <<>>
    /\ ~pix_open
    /\ vga_pc' = "done"
    /\ back_open' = FALSE
    /\ UNCHANGED <<fb_mutex, pixels, fn_call>>
    /\ UNCHANGED <<overflow_checks, trace, idx, ria, ria_pc, pix, pix_open, back, vga, fb,
                   log, pix_sent, sent_by, vga_log>>

Next == RiaFrame \/ RiaTxn \/ RiaExit \/ VgaRecv \/ VgaExit

(* Ria::reset is public: the owner of the Ria may call it between two       *)
(* process() calls.                                                         *)
MaxResets == 1

NoTxn == [cycle |-> 0, addr |-> 0, data |-> 0, rw |-> FALSE]

RiaReset ==
    /\ ria_pc = "run"
    /\ Cardinality({k \in 1..Len(log) : log[k].kind = "reset"}) < MaxResets
    /\ ria' = reset(ria)
    /\ log' = Append(log, [kind |-> "reset", txn |-> NoTxn, pre |-> ria,
                           post |-> reset(ria), ret |-> 0, frame |-> FALSE,
                           sent |-> <<>>, panic |-> FALSE])
    /\ UNCHANGED <<fb_mutex, pixels, fn_call>>
    /\ UNCHANGED <<overflow_checks, trace, idx, ria_pc, pix, pix_open, back,
                   back_open, vga, vga_pc, fb, pix_sent, sent_by, vga_log>>

NextWithReset == Next \/ RiaReset

-----------------------------------------------------------------------------
(* Portal traces: transactions on the two XRAM portals *)

PortalItems ==
    { W(65508, 66, 0), W(65508, 67, 1), W(65512, 68, 0),
      W(65509, 0, 0), W(65509, 255, 0), W(65510, 255, 0),
      R(65508, 0), R(65508, 1), R(65512, 0), W(4096, 9, 0) }

PortalTraces == {stamp(items, 0) : items \in [1..MaxTxn -> PortalItems]}

Init == InitWith(PortalTraces \X {RiaNew})

Spec == Init /\ [][Next]_vars

-----------------------------------------------------------------------------
(* Stack traces: pushes, pops and OP 0x00 writes, on an xstack that is      *)
(* empty or within NearFull bytes of full.                                  *)

StackItems ==
    { W(65516, 66, 0), W(65516, 67, 1), R(65516, 0), W(65519, 0, 0) }

(* The Ria after the trace builder's first Len(bytes) transactions, pushes  *)
(* of bytes[1..n] stamped with cycles 0..n-1, were processed: the k-th push *)
(* stores its byte at xstack[XSTACK_SIZE - k] and mirrors it in regs[0x0C]. *)
Pushed(bytes) ==
    LET n == Len(bytes) IN
    IF n = 0 THEN RiaNew
    ELSE [RiaNew EXCEPT
            !.xstack_ptr = XSTACK_SIZE - n,
            !.xstack = [j \in {i \in (XSTACK_SIZE - n)..(XSTACK_SIZE - 1) :
                                    bytes[XSTACK_SIZE - i] # 0} |->
                            bytes[XSTACK_SIZE - j]],
            !.regs[12] = bytes[n],
            !.cycle_count = n - 1]

(* The byte the k-th push of a fill writes: zero, except the first byte     *)
(* (an invalid xreg device) and the bytes a few pops from a nearly full     *)
(* stack return.                                                            *)
FillByte(k) ==
    IF k = 1 \/ k > XSTACK_SIZE - 2 * NearFull THEN 9 + (k % 7) ELSE 0

Filled(n) == Pushed([k \in 1..n |-> FillByte(k)])

FillLevels == {0} \cup ((XSTACK_SIZE - NearFull)..XSTACK_SIZE)

StackFills == {Filled(n) : n \in FillLevels}

StackStarts ==
    {<<stamp(items, XSTACK_SIZE - r.xstack_ptr), r>> :
        items \in [1..MaxTxn -> StackItems], r \in StackFills}

InitStack == InitWith(StackStarts)

SpecStack == InitStack /\ [][NextWithReset]_vars

(* LIFO traces: pushes and pops only, from the empty xstack *)
MaxLifo == 5

LifoItems == { W(65516, 66, 0), W(65516, 67, 1), R(65516, 0) }

LifoStarts == {<<stamp(items, 0), RiaNew>> : items \in [1..MaxLifo -> LifoItems]}

InitLifo == InitWith(LifoStarts)

SpecLifo == InitLifo /\ [][Next]_vars

-----------------------------------------------------------------------------
(* xreg traces: programs of at most MaxCalls TraceBuilder calls, run on an  *)
(* empty xstack or on one that already holds the bytes of a malformed batch. *)

(* TraceBuilder: [trace, cycle] *)
TraceBuilder_new(cycle) == [trace |-> <<>>, cycle |-> cycle]

TraceBuilder_write(b, addr, data) ==
    [trace |-> Append(b.trace,
                      [cycle |-> b.cycle, addr |-> addr, data |-> data, rw |-> FALSE]),
     cycle |-> b.cycle + 1]

wait_frames(b, n) == [b EXCEPT !.cycle = @ + n * WAIT_CYCLES]

(* The bytes TraceBuilder::xreg pushes: the header, then each value high    *)
(* byte first.                                                              *)
xreg_bytes(device, channel, addr, values) ==
    <<device, channel, addr>> \o
    [k \in 1..(2 * Len(values)) |->
        IF k % 2 = 1 THEN (values[(k + 1) \div 2] \div 256) % 256
                     ELSE values[k \div 2] % 256]

xreg(b, device, channel, addr, values) ==
    LET bytes == xreg_bytes(device, channel, addr, values)
        n == Len(bytes)
    IN [trace |-> b.trace \o
                  [k \in 1..(n + 1) |->
                      [cycle |-> b.cycle + k - 1,
                       addr |-> IF k <= n THEN 65516 ELSE 65519,
                       data |-> IF k <= n THEN bytes[k] ELSE 1,
                       rw |-> FALSE]],
        cycle |-> b.cycle + n + 1]

xreg_vga_canvas(b, value) == xreg(b, 1, 0, 0, <<value>>)

xreg_vga_mode(b, values) == xreg(b, 1, 0, 1, values)

(* The calls a program is made of *)
XregCalls ==
    { [op |-> "xreg_vga_mode", values |-> <<3, 3, 256, 1, 10, 200>>],
      [op |-> "xreg_vga_canvas", value |-> 1],
      [op |-> "xreg", device |-> 1, channel |-> 0, addr |-> 2,
       values |-> <<2313, 2570, 2827, 3084, 3341>>],
      [op |-> "xreg", device |-> 1, channel |-> 0, addr |-> 255, values |-> <<1, 2>>],
      [op |-> "xreg", device |-> 8, channel |-> 0, addr |-> 0, values |-> <<1>>],
      [op |-> "xreg", device |-> 1, channel |-> 16, addr |-> 0, values |-> <<1>>],
      [op |-> "wait_frames", n |-> 1],
      [op |-> "write", addr |-> 65519, data |-> 1] }

call(b, c) ==
    CASE c.op = "xreg_vga_mode" -> xreg_vga_mode(b, c.values)
      [] c.op = "xreg_vga_canvas" -> xreg_vga_canvas(b, c.value)
      [] c.op = "xreg" -> xreg(b, c.device, c.channel, c.addr, c.values)
      [] c.op = "wait_frames" -> wait_frames(b, c.n)
      [] c.op = "write" -> TraceBuilder_write(b, c.addr, c.data)

RECURSIVE build(_, _)
build(calls, b) ==
    IF calls = <<>> THEN b.trace ELSE build(Tail(calls), call(b, Head(calls)))

XregPrograms == UNION {[1..n -> XregCalls] : n \in 1..MaxCalls}

(* What the xstack holds when the program starts: nothing, a header with no *)
(* payload, a header with one payload byte.                                 *)
XregFills == { <<>>, <<1, 0, 0>>, <<1, 0, 0, 5>> }

XregStarts ==
    {<<build(calls, TraceBuilder_new(Len(bytes))), Pushed(bytes)>> :
        calls \in XregPrograms, bytes \in XregFills}

InitXreg == InitWith(XregStarts)

SpecXreg == InitXreg /\ [][Next]_vars

-----------------------------------------------------------------------------
(* VGA command traces.  The run starts when the RIA has processed, and the  *)
(* VGA has handled, at most MaxCalls set-up calls that program planes 0 and *)
(* 1, and the RIA has pushed the bytes of one more CANVAS or MODE command;  *)
(* the trace left is the OP write that fires it, at once or a frame later.  *)

(* Ria::process over txns[lo..hi], none of which reaches a frame boundary:   *)
(* [ria, sent].  The range is halved, and each state compared with itself   *)
(* so that TLC evaluates it in full, to keep the evaluation shallow.        *)
RECURSIVE process_all(_, _, _, _)
process_all(m, txns, lo, hi) ==
    IF lo > hi THEN m
    ELSE IF lo = hi
    THEN LET d == process_dispatch(process_frame(m.ria, txns[lo]), txns[lo], FALSE)
         IN IF d = d THEN [ria |-> d.ria, sent |-> m.sent \o d.sent] ELSE m
    ELSE LET mid == (lo + hi) \div 2
             left == process_all(m, txns, lo, mid)
         IN IF left = left THEN process_all(left, txns, mid + 1, hi) ELSE m

(* Vga::handle_event over events[lo..hi]: [vga, out] *)
RECURSIVE handle_all(_, _, _, _)
handle_all(m, events, lo, hi) ==
    IF lo > hi THEN m
    ELSE IF lo = hi
    THEN LET h == handle_event(m.vga, events[lo])
         IN IF h = h THEN [vga |-> h.vga, out |-> m.out \o h.out] ELSE m
    ELSE LET mid == (lo + hi) \div 2
             left == handle_all(m, events, lo, mid)
         IN IF left = left THEN handle_all(left, events, mid + 1, hi) ELSE m

(* The state in which the RIA has processed txns and the VGA has handled    *)
(* every event that produced; rest is the trace still to process.           *)
StartAfter(txns, rest) ==
    LET r == process_all([ria |-> RiaNew, sent |-> <<>>], txns, 1, Len(txns))
        v == handle_all([vga |-> VgaNew, out |-> <<>>], r.sent, 1, Len(r.sent))
    IN [trace |-> rest, ria |-> r.ria, vga |-> v.vga, back |-> v.out]

VgaSetupCalls ==
    { [op |-> "xreg_vga_mode", values |-> <<3, 3, 256, 1, 10, 200>>],
      [op |-> "xreg_vga_mode", values |-> <<1, 0, 512, 0, 0, 0>>] }

(* MODE commands: every mode, a valid and an invalid attribute, config_ptr  *)
(* low, odd, and at the last places a 16-byte and a 14-byte structure fit,  *)
(* plane_idx in and out of range; an unknown mode; CANVAS values.           *)
VgaModeValues ==
    { <<mode, attr, config_ptr, plane_idx, 7, 99>> :
        mode \in {1, 2, 3}, attr \in {3, 5},
        config_ptr \in {256, 257, 65520, 65522, 65524}, plane_idx \in {1, 3} }
    \cup { <<5, 3, 256, 1, 7, 99>> }

VgaCommands ==
    { [op |-> "xreg_vga_mode", values |-> vs] : vs \in VgaModeValues }
    \cup { [op |-> "xreg_vga_canvas", value |-> v] : v \in 0..5 }

(* The planes the command finds: untouched, programmed once, or twice *)
VgaSetups ==
    {<<>>} \cup { <<a>> : a \in VgaSetupCalls }
           \cup { <<a, b>> : a \in VgaSetupCalls, b \in VgaSetupCalls }

VgaPrograms ==
    { setup \o <<c>> : setup \in VgaSetups, c \in VgaCommands }

(* The last write of txns, made `wait` frames later *)
LastDelayed(txns, wait) ==
    <<[txns[Len(txns)] EXCEPT !.cycle = @ + wait * WAIT_CYCLES]>>

VgaStarts ==
    { LET txns == build(calls, TraceBuilder_new(0))
      IN StartAfter(SubSeq(txns, 1, Len(txns) - 1), LastDelayed(txns, wait)) :
        calls \in VgaPrograms, wait \in {0, 1} }

InitVga == InitAt(VgaStarts)

SpecVga == InitVga /\ [][Next]_vars

-----------------------------------------------------------------------------
(* Vocabulary of the properties *)

RW0 == 65508
RW1 == 65512
XSTACK == 65516
OP == 65519

IsWrite(e, a) == e.kind = "txn" /\ ~e.txn.rw /\ e.txn.addr = a
IsRead(e, a) == e.kind = "txn" /\ e.txn.rw /\ e.txn.addr = a

(* sign_extend(STEP) as an integer, and addresses modulo 2^16 *)
Signed8(b) == IF b >= 128 THEN b - 256 ELSE b
Mod16(x) == ((x % U16) + U16) % U16

(* The Xram events a processed trace calls for: one per write to RW0 / RW1, *)
(* with the portal address the RIA held when the write arrived.             *)
RECURSIVE ExpectedXram(_)
ExpectedXram(l) ==
    IF l = <<>> THEN <<>>
    ELSE LET e == l[Len(l)]
             rest == ExpectedXram(SubSeq(l, 1, Len(l) - 1))
         IN IF IsWrite(e, RW0) THEN Append(rest, Xram(addr0(e.pre), e.txn.data))
            ELSE IF IsWrite(e, RW1) THEN Append(rest, Xram(addr1(e.pre), e.txn.data))
            ELSE rest

IsXramEvent(ev) == ev.type = "Xram"
IsFrameSync(ev) == ev.type = "FrameSync"

Received == [k \in 1..Len(vga_log) |-> vga_log[k].event]

(* C1: the Xram events the RIA sends are exactly the RW0 / RW1 writes of the *)
(* transactions it processed, in trace order, one per write, each with the   *)
(* written byte and the pre-increment portal address; no other transaction   *)
(* sends an Xram event; and the VGA receives the events sent, in send order, *)
(* all of them by the time its loop returns.                                 *)
C1_XramEventsAreRwWrites ==
    /\ SelectSeq(pix_sent, IsXramEvent) = ExpectedXram(log)
    /\ \A k \in 1..Len(log) :
          SelectSeq(log[k].sent, IsXramEvent) =
              IF IsWrite(log[k], RW0) \/ IsWrite(log[k], RW1)
              THEN log[k].sent ELSE <<>>
    /\ Received = SubSeq(pix_sent, 1, Len(vga_log))
    /\ vga_pc = "done" => Len(vga_log) = Len(pix_sent)

(* C1 witness: writes through both portals and an RW0 read were processed,  *)
(* the second write at a nonzero pre-increment address, and the VGA has     *)
(* received everything.                                                     *)
C1_Witness ==
    /\ vga_pc = "done"
    /\ \E i, j, k \in 1..Len(log) :
          /\ IsWrite(log[i], RW0) /\ IsWrite(log[j], RW1) /\ IsRead(log[k], RW0)
    /\ \E n \in 1..Len(pix_sent) : IsXramEvent(pix_sent[n]) /\ pix_sent[n].addr # 0

(* A run: log entries p..q that are all writes to the data register rw.     *)
IsRun(p, q, rw) == p <= q /\ \A k \in p..q : IsWrite(log[k], rw)

RunAddr(A, s, i) == Mod16(A + i * Signed8(s))

(* The statement of C2 for one portal, as claimed: every value of the run   *)
(* is found at its address afterwards.                                      *)
RunAsClaimed(p, q, A, s, xram, final) ==
    /\ \A i \in 0..(q - p) : Get(xram, RunAddr(A, s, i)) = log[p + i].txn.data
    /\ final = RunAddr(A, s, q - p + 1)

(* As amended: a value is found at its address unless a later write of the  *)
(* run went to the same address.                                            *)
RunAsAmended(p, q, A, s, xram, final) ==
    /\ \A i \in 0..(q - p) :
          (\A j \in (i + 1)..(q - p) : RunAddr(A, s, j) # RunAddr(A, s, i))
              => Get(xram, RunAddr(A, s, i)) = log[p + i].txn.data
    /\ final = RunAddr(A, s, q - p + 1)

(* C2 as claimed: after N consecutive writes v_0..v_(N-1) to RW0 from       *)
(* ADDR0 = A, STEP0 = s: xram[(A + i*s') mod 2^16] = v_i for every i < N    *)
(* and ADDR0 = (A + N*s') mod 2^16; likewise for portal 1.                  *)
C2_AsClaimed ==
    \A p, q \in 1..Len(log) :
        /\ IsRun(p, q, RW0) =>
              RunAsClaimed(p, q, addr0(log[p].pre), step0(log[p].pre),
                           log[q].post.xram, addr0(log[q].post))
        /\ IsRun(p, q, RW1) =>
              RunAsClaimed(p, q, addr1(log[p].pre), step1(log[p].pre),
                           log[q].post.xram, addr1(log[q].post))

(* C2 amended: after N consecutive writes v_0..v_(N-1) to RW0 from ADDR0 = A, *)
(* STEP0 = s, ADDR0 = (A + N*s') mod 2^16 and xram[(A + i*s') mod 2^16] = v_i *)
(* for every i < N whose address no later write of the run hit again (with    *)
(* s = 0 all writes hit A, and only v_(N-1) remains); likewise for portal 1.  *)
C2_PortalRun ==
    \A p, q \in 1..Len(log) :
        /\ IsRun(p, q, RW0) =>
              RunAsAmended(p, q, addr0(log[p].pre), step0(log[p].pre),
                           log[q].post.xram, addr0(log[q].post))
        /\ IsRun(p, q, RW1) =>
              RunAsAmended(p, q, addr1(log[p].pre), step1(log[p].pre),
                           log[q].post.xram, addr1(log[q].post))

(* C2 witness: two consecutive RW0 writes of different bytes with a negative *)
(* step, the second one landing below address 0, at 0xFFFF.                  *)
C2_Witness ==
    \E p \in 1..Len(log) :
        /\ p + 1 <= Len(log)
        /\ IsRun(p, p + 1, RW0)
        /\ step0(log[p].pre) = 255
        /\ addr0(log[p].pre) = 0
        /\ log[p].txn.data # log[p + 1].txn.data
        /\ Get(log[p + 1].post.xram, 65535) = log[p + 1].txn.data

(* What C3 says of one processed read of a data register *)
ReadReturns(e, addr, step, newaddr) ==
    /\ e.ret = Get(e.pre.xram, addr)
    /\ newaddr = Mod16(addr + Signed8(step))
    /\ e.post.xram = e.pre.xram

(* C3 as claimed: a read of RW0 (RW1) returns the XRAM byte at ADDR0 (ADDR1) *)
(* as it is when the read arrives, then advances the address by the          *)
(* sign-extended STEP modulo 2^16, changes no XRAM byte and emits no PIX     *)
(* event at all.                                                             *)
C3_AsClaimed ==
    \A k \in 1..Len(log) :
        LET e == log[k] IN
        /\ IsRead(e, RW0) =>
              /\ ReadReturns(e, addr0(e.pre), step0(e.pre), addr0(e.post))
              /\ e.sent = <<>> /\ ~e.frame
        /\ IsRead(e, RW1) =>
              /\ ReadReturns(e, addr1(e.pre), step1(e.pre), addr1(e.post))
              /\ e.sent = <<>> /\ ~e.frame

(* C3 amended: as claimed, except that the read emits no Xram and no Reg    *)
(* event; process() still sends the FrameSync of a frame boundary that the  *)
(* read's cycle stamp reaches.                                              *)
C3_PortalRead ==
    \A k \in 1..Len(log) :
        LET e == log[k] IN
        /\ IsRead(e, RW0) =>
              /\ ReadReturns(e, addr0(e.pre), step0(e.pre), addr0(e.post))
              /\ e.sent = <<>>
        /\ IsRead(e, RW1) =>
              /\ ReadReturns(e, addr1(e.pre), step1(e.pre), addr1(e.post))
              /\ e.sent = <<>>

(* C3 witness: an RW0 read returns the nonzero byte that the transaction    *)
(* just before it wrote through portal 1.                                   *)
C3_Witness ==
    \E k \in 2..Len(log) :
        /\ IsRead(log[k], RW0)
        /\ IsWrite(log[k - 1], RW1)
        /\ log[k].ret = log[k - 1].txn.data
        /\ log[k].ret # 0

(* Number of Xram events among the first n events sent, and among those of  *)
(* the first j processed transactions.                                      *)
XramSentIn(n) == Len(SelectSeq(SubSeq(pix_sent, 1, n), IsXramEvent))
XramOfLog(j) == Len(ExpectedXram(SubSeq(log, 1, j)))

(* Log entries j and j+1 write two bytes in a row through the same portal.  *)
TwoByteWrite(j) ==
    /\ j + 1 <= Len(log)
    /\ \/ IsWrite(log[j], RW0) /\ IsWrite(log[j + 1], RW0)
       \/ IsWrite(log[j], RW1) /\ IsWrite(log[j + 1], RW1)

(* The k-th event the VGA handled is a FrameSync, and the mirror it renders *)
(* from holds the first byte of the two-byte write j, j+1 but not the second. *)
RendersPartial(k, j) ==
    /\ IsFrameSync(vga_log[k].event)
    /\ TwoByteWrite(j)
    /\ XramSentIn(k - 1) = XramOfLog(j)

(* C10 as claimed: no frame is rendered from a mirror in which only part of *)
(* a multi-byte value written as consecutive RW0/RW1 writes is applied.     *)
C10_AsClaimed ==
    \A k \in 1..Len(vga_log) : \A j \in 1..Len(log) : ~RendersPartial(k, j)

(* The RIA XRAM as it was when transaction t arrived *)
XramBeforeTxn(t) == IF t <= Len(log) THEN log[t].pre.xram ELSE ria.xram

(* C10 amended: every frame is rendered from a mirror that equals the RIA   *)
(* XRAM as it was when the RIA sent that frame's FrameSync: it holds all    *)
(* RW0/RW1 writes of the transactions before the one whose cycle stamp      *)
(* reached the frame boundary and none of the later ones, in every          *)
(* interleaving; and that frame is the one published.                       *)
C10_FrameFromPrefix ==
    /\ \A k \in 1..Len(vga_log) :
          IsFrameSync(vga_log[k].event) =>
              render_frame(vga_log[k].pre).xram = XramBeforeTxn(sent_by[k])
    /\ \A k \in 1..Len(vga_log) :
          (/\ IsFrameSync(vga_log[k].event)
           /\ \A n \in (k + 1)..Len(vga_log) : ~IsFrameSync(vga_log[n].event))
              => fb = <<render_frame(vga_log[k].pre)>>

(* C10 witness: a frame was rendered and published from a mirror holding    *)
(* the first byte of a two-byte write, the boundary falling on the second.  *)
C10_Witness ==
    \E k \in 1..Len(vga_log) : \E j \in 1..Len(log) :
        /\ RendersPartial(k, j)
        /\ sent_by[k] = j + 1
        /\ vga_log[k].pre.xram # Zeroes
        /\ fb # <<>>

-----------------------------------------------------------------------------
(* The xstack (checked under SpecStack and SpecLifo)                        *)

IsPush(e) == IsWrite(e, XSTACK)
IsPop(e) == IsRead(e, XSTACK)

(* C4: xstack_ptr stays within 0..=512 and xstack[512] stays 0, after any   *)
(* sequence of pushes, pops, OP writes and resets.                          *)
C4_StackPointerInRange ==
    /\ ria.xstack_ptr \in 0..XSTACK_SIZE
    /\ Get(ria.xstack, XSTACK_SIZE) = 0
    /\ DOMAIN ria.xstack \subseteq 0..XSTACK_SIZE

(* A push arrived on the full stack, a pop on the empty one, and a reset    *)
(* was taken.                                                               *)
C4_Witness ==
    /\ \E k \in 1..Len(log) : IsPush(log[k]) /\ log[k].pre.xstack_ptr = 0
    /\ \E k \in 1..Len(log) : IsPop(log[k]) /\ log[k].pre.xstack_ptr = XSTACK_SIZE
    /\ \E k \in 1..Len(log) : log[k].kind = "reset"

(* log[p..p+n-1] are pushes that started on the empty stack and             *)
(* log[p+n..p+n+m-1] are the reads of XSTACK that follow them.              *)
PushesThenPops(p, n, m) ==
    /\ n >= 1 /\ m >= 1 /\ p + n + m - 1 <= Len(log)
    /\ log[p].pre.xstack_ptr = XSTACK_SIZE
    /\ \A k \in p..(p + n - 1) : IsPush(log[k])
    /\ \A k \in (p + n)..(p + n + m - 1) : IsPop(log[k])

(* C5: from the empty xstack, after pushes b1..bn, n+1 reads of 0xFFEC      *)
(* return bn, ..., b1, 0 and leave xstack_ptr = 512, regs[0x0C] = 0.        *)
C5_Lifo ==
    \A p \in 1..Len(log) : \A n \in 1..Len(log) : \A m \in 1..(n + 1) :
        PushesThenPops(p, n, m) =>
            /\ \A j \in 1..m :
                  log[p + n + j - 1].ret =
                      IF j <= n THEN log[p + n - j].txn.data ELSE 0
            /\ m = n + 1 =>
                  /\ log[p + 2 * n].post.xstack_ptr = XSTACK_SIZE
                  /\ log[p + 2 * n].post.regs[12] = 0

(* Two pushes of different bytes, then three reads *)
C5_Witness ==
    /\ PushesThenPops(1, 2, 3)
    /\ log[1].txn.data # log[2].txn.data

(* C6 as stated: a push on the full xstack changes neither xstack_ptr nor   *)
(* the xstack, a pop on the empty one returns 0 and leaves xstack_ptr at    *)
(* 512; neither halts the RIA nor emits a PIX event.                         *)
C6_AsClaimed ==
    \A k \in 1..Len(log) :
        LET e == log[k] IN
        /\ (IsPush(e) /\ e.pre.xstack_ptr = 0) =>
              /\ e.post.xstack_ptr = 0
              /\ e.post.xstack = e.pre.xstack
              /\ e.post.running /\ ~e.panic
              /\ e.sent = <<>> /\ ~e.frame
        /\ (IsPop(e) /\ e.pre.xstack_ptr = XSTACK_SIZE) =>
              /\ e.ret = 0
              /\ e.post.xstack_ptr = XSTACK_SIZE
              /\ e.post.running /\ ~e.panic
              /\ e.sent = <<>> /\ ~e.frame

(* The position in the trace of the transaction logged as log[k] *)
TxnIndex(k) == Cardinality({j \in 1..k : log[j].kind = "txn"})

(* Every PIX event the transaction of log[k] sent is a FrameSync *)
OnlyFrameSync(k) ==
    \A j \in 1..Len(pix_sent) : sent_by[j] = TxnIndex(k) => IsFrameSync(pix_sent[j])

(* C6, amended: as stated, except that the only PIX event such a            *)
(* transaction can emit is the FrameSync of a frame boundary its cycle       *)
(* stamp reaches.                                                           *)
C6_DroppedPushEmptyPop ==
    \A k \in 1..Len(log) :
        LET e == log[k] IN
        /\ (IsPush(e) /\ e.pre.xstack_ptr = 0) =>
              /\ e.post.xstack_ptr = 0
              /\ e.post.xstack = e.pre.xstack
              /\ e.post.running /\ ~e.panic
              /\ OnlyFrameSync(k)
        /\ (IsPop(e) /\ e.pre.xstack_ptr = XSTACK_SIZE) =>
              /\ e.ret = 0
              /\ e.post.xstack_ptr = XSTACK_SIZE
              /\ e.post.running /\ ~e.panic
              /\ OnlyFrameSync(k)

(* A push on the full stack whose cycle stamp reached a frame boundary, and *)
(* a pop on the empty stack.                                                *)
C6_Witness ==
    /\ \E k \in 1..Len(log) :
          IsPush(log[k]) /\ log[k].pre.xstack_ptr = 0 /\ log[k].frame
    /\ \E k \in 1..Len(log) :
          IsPop(log[k]) /\ log[k].pre.xstack_ptr = XSTACK_SIZE

-----------------------------------------------------------------------------
(* xreg (checked under SpecXreg)                                            *)

IsXreg(e) == IsWrite(e, OP) /\ e.txn.data = 1

(* The batch on the xstack of r, as section "xstack layout" describes it *)
PayloadBytes(r) == XSTACK_SIZE - r.xstack_ptr - 3
BatchDevice(r) == Get(r.xstack, XSTACK_SIZE - 1)
BatchChannel(r) == Get(r.xstack, XSTACK_SIZE - 2)
BatchStart(r) == Get(r.xstack, XSTACK_SIZE - 3)
BatchCount(r) == PayloadBytes(r) \div 2

(* The w-th pushed 16-bit word, w = 1 the first pushed: its bytes lie at    *)
(* xstack[509 - 2w] (low) and xstack[510 - 2w] (high).                      *)
PushedWord(r, w) ==
    Get(r.xstack, XSTACK_SIZE - 3 - 2 * w) + 256 * Get(r.xstack, XSTACK_SIZE - 2 - 2 * w)

Accepted(r) ==
    /\ PayloadBytes(r) >= 2 /\ PayloadBytes(r) % 2 = 0
    /\ BatchDevice(r) < 8 /\ BatchChannel(r) < 16

Malformed(r) ==
    \/ PayloadBytes(r) < 2
    \/ PayloadBytes(r) % 2 = 1
    \/ BatchDevice(r) > 7
    \/ BatchChannel(r) > 15

ApiReturn(r) == r.regs[20] + 256 * r.regs[22]

(* C7 as stated: an accepted xreg emits exactly count Reg events on its     *)
(* channel, registers start_reg+count-1 down to start_reg, register         *)
(* start_reg+k carrying the (k+1)-th pushed word; afterwards sp = 512 and   *)
(* the API return value is 0.                                               *)
C7_AsClaimed ==
    \A t \in 1..Len(log) :
        (IsXreg(log[t]) /\ Accepted(log[t].pre)) =>
            LET r == log[t].pre
                count == BatchCount(r)
            IN /\ ~log[t].panic
               /\ log[t].sent =
                     [n \in 1..count |->
                         Reg(BatchChannel(r), BatchStart(r) + (count - n),
                             PushedWord(r, count - n + 1))]
               /\ log[t].post.xstack_ptr = XSTACK_SIZE
               /\ ApiReturn(log[t].post) = 0

(* C8 as stated: a malformed xreg emits no PIX event, publishes 0xFFFF and  *)
(* leaves sp and every xstack byte unchanged.                               *)
C8_AsClaimed ==
    \A t \in 1..Len(log) :
        (IsXreg(log[t]) /\ Malformed(log[t].pre)) =>
            /\ log[t].sent = <<>> /\ ~log[t].frame
            /\ ApiReturn(log[t].post) = 65535
            /\ log[t].post.xstack_ptr = log[t].pre.xstack_ptr
            /\ log[t].post.xstack = log[t].pre.xstack

(* C8, amended: a malformed xreg emits no Xram or Reg event (at most the    *)
(* FrameSync of a frame boundary its cycle stamp reaches), publishes 0xFFFF *)
(* and leaves sp and every xstack byte unchanged.                           *)
C8_MalformedRejected ==
    \A t \in 1..Len(log) :
        (IsXreg(log[t]) /\ Malformed(log[t].pre)) =>
            /\ OnlyFrameSync(t)
            /\ ~log[t].panic
            /\ ApiReturn(log[t].post) = 65535
            /\ log[t].post.xstack_ptr = log[t].pre.xstack_ptr
            /\ log[t].post.xstack = log[t].pre.xstack

(* An xreg with an odd payload was rejected by a transaction whose cycle    *)
(* stamp reached a frame boundary.                                          *)
C8_Witness ==
    \E t \in 1..Len(log) :
        /\ IsXreg(log[t]) /\ PayloadBytes(log[t].pre) = 1 /\ log[t].frame
        /\ ApiReturn(log[t].post) = 65535

(* vga_log[k] is the VGA handling the MODE event of a batch on channel 0    *)
(* with start_reg = 1 and six words, fired by transaction t.                *)
ModeOfBatch(k, t) ==
    /\ k <= Len(vga_log) /\ t <= Len(log)
    /\ sent_by[k] = t
    /\ pix_sent[k].type = "Reg" /\ pix_sent[k].channel = 0 /\ pix_sent[k].register = 1
    /\ IsXreg(log[t]) /\ Accepted(log[t].pre)
    /\ BatchChannel(log[t].pre) = 0
    /\ BatchStart(log[t].pre) = 1
    /\ BatchCount(log[t].pre) = 6

(* C9: when the VGA handles the MODE event of such a batch, its staging     *)
(* slots 2..6 hold words 2..6 of that batch.                                *)
C9_ModeSeesItsOperands ==
    \A k \in 1..Len(vga_log) : \A t \in 1..Len(log) :
        ModeOfBatch(k, t) =>
            /\ vga_log[k].event = pix_sent[k]
            /\ \A j \in 2..6 : vga_log[k].pre.xregs[j] = PushedWord(log[t].pre, j)

(* The MODE event of a batch was handled after an earlier command had left  *)
(* another config_ptr in staging slot 3.                                    *)
C9_Witness ==
    \E k \in 1..Len(vga_log) : \E t \in 1..Len(log) :
        /\ ModeOfBatch(k, t)
        /\ PushedWord(log[t].pre, 3) = 256
        /\ \E j \in 1..(k - 1) :
              /\ vga_log[j].event.type = "Reg"
              /\ vga_log[j].event.register = 3
              /\ vga_log[j].event.value # 256
              /\ sent_by[j] < t

-----------------------------------------------------------------------------
(* IRQ traces: writes and reads of the IRQ register 0xFFF0, OP writes       *)
(* (0x00 returns through api_return_ax, 0xFF exits) and reads outside the   *)
(* RIA, each made at once or one wait_frames(1) later.                      *)
MaxIrq == 3

IRQ == 65520

IrqItems ==
    { W(IRQ, 1, 0), W(IRQ, 2, 0), R(IRQ, 0), R(IRQ, 1), R(4096, 1),
      W(OP, 0, 0), W(OP, 255, 0) }

IrqStarts == {<<stamp(items, 0), RiaNew>> : items \in [1..MaxIrq -> IrqItems]}

InitIrq == InitWith(IrqStarts)

SpecIrq == InitIrq /\ [][Next]_vars

-----------------------------------------------------------------------------
(* Frame traces: the run is taken up after the RIA has processed a number   *)
(* of reads outside the RIA, one wait_frames(1) apart, with the VGA         *)
(* handling every event before the RIA's next step (the VGA thread never    *)
(* lags): each FrameSync was answered by a Vsync that the poll of the same  *)
(* process() call drained.                                                  *)

(* One process() call in that schedule: st is [ria, vga, back] *)
step_lockstep(st, txn) ==
    LET framed == crossed(st.ria, txn)
        h == handle_event(st.vga, FrameSync)
        r0 == IF framed
              THEN poll_backchannel(process_frame(st.ria, txn), st.back \o h.out, TRUE)
              ELSE process_frame(st.ria, txn)
        d == process_dispatch(r0, txn, FALSE)
        v == handle_all([vga |-> IF framed THEN h.vga ELSE st.vga, out |-> <<>>],
                        d.sent, 1, Len(d.sent))
    IN [ria |-> d.ria, vga |-> v.vga,
        back |-> IF framed THEN v.out ELSE st.back \o v.out]

(* The calls for txns[lo..hi] *)
RECURSIVE run_lockstep(_, _, _, _)
run_lockstep(st, txns, lo, hi) ==
    IF lo > hi THEN st
    ELSE IF lo = hi
    THEN LET s1 == step_lockstep(st, txns[lo])
         IN IF s1 = s1 THEN s1 ELSE st
    ELSE LET mid == (lo + hi) \div 2
             left == run_lockstep(st, txns, lo, mid)
         IN IF left = left THEN run_lockstep(left, txns, mid + 1, hi) ELSE st

(* The k-th of the reads: after k wait_frames(1) and k - 1 earlier reads *)
FramesBefore(n) == [k \in 1..n |-> BusRead(k * WAIT_CYCLES + k - 1, 4096, 0)]

(* Frames already shown when the run is taken up: none, enough for the next *)
(* frames to wrap the Vsync nibble, enough to wrap the u8 frame counter.    *)
FrameCounts == {0, 14, 255}

MaxFrames == 3

FrameItems == { R(4096, 1), W(RW0, 66, 1), W(RW0, 66, 0) }

FrameStarts ==
    { LET st == run_lockstep([ria |-> RiaNew, vga |-> VgaNew, back |-> <<>>],
                             FramesBefore(n), 1, n)
      IN [trace |-> stamp(items, n * WAIT_CYCLES + n), ria |-> st.ria,
          vga |-> st.vga, back |-> st.back] :
        n \in FrameCounts, items \in [1..MaxFrames -> FrameItems] }

InitFrames == InitAt(FrameStarts)

SpecFrames == InitFrames /\ [][Next]_vars

-----------------------------------------------------------------------------
(* Exit traces: IRQ traces that end with the exit OP, run by two threads    *)
(* that the scheduler does not starve: a thread that can take a step        *)
(* eventually takes one.                                                    *)
ExitStarts ==
    {<<stamp(items \o <<W(OP, 255, 0)>>, 0), RiaNew>> :
        items \in [1..(MaxIrq - 1) -> IrqItems]}

InitExit == InitWith(ExitStarts)

RiaThread == RiaFrame \/ RiaTxn \/ RiaExit

VgaThread == VgaRecv \/ VgaExit

FairSpecExit ==
    InitExit /\ [][Next]_vars /\ WF_vars(RiaThread) /\ WF_vars(VgaThread)

-----------------------------------------------------------------------------
(* Drain traces: RW0 writes, reads outside the RIA and exit OPs, each made  *)
(* at once or one wait_frames(1) later, so that the exit OP itself may      *)
(* reach a frame boundary.                                                  *)
DrainItems ==
    { W(RW0, 66, 0), W(RW0, 67, 1), R(4096, 1), W(OP, 255, 0), W(OP, 255, 1) }

DrainStarts == {<<stamp(items, 0), RiaNew>> : items \in [1..MaxTxn -> DrainItems]}

InitDrain == InitWith(DrainStarts)

SpecDrain == InitDrain /\ [][Next]_vars

-----------------------------------------------------------------------------
(* The VGA after it has handled the k-th event it received *)
VgaPost(k) == IF k < Len(vga_log) THEN vga_log[k + 1].pre ELSE vga

(* vga_log[k] is a channel-0 write to register reg *)
IsCh0Write(k, reg) ==
    /\ vga_log[k].event.type = "Reg"
    /\ vga_log[k].event.channel = 0
    /\ vga_log[k].event.register = reg

NoPlanes(v) == \A i \in 0..2 : v.planes[i] = None

StagingClear(v) == \A i \in 0..7 : v.xregs[i] = 0

(* C11: a channel-0 write to register 0 (CANVAS) sets the canvas to         *)
(* 320x240, 320x180, 640x480, 640x360 for values 1, 2, 3, 4 and to 640x480  *)
(* for every other value, empties the three plane slots, clears the staging *)
(* array and sends exactly one Ack.                                         *)
C11_CanvasWrite ==
    \A k \in 1..Len(vga_log) :
        IsCh0Write(k, 0) =>
            LET value == vga_log[k].event.value
                post == VgaPost(k)
            IN /\ value = 1 => post.canvas_width = 320 /\ post.canvas_height = 240
               /\ value = 2 => post.canvas_width = 320 /\ post.canvas_height = 180
               /\ value = 3 => post.canvas_width = 640 /\ post.canvas_height = 480
               /\ value = 4 => post.canvas_width = 640 /\ post.canvas_height = 360
               /\ value \notin 1..4 => post.canvas_width = 640 /\ post.canvas_height = 480
               /\ NoPlanes(post)
               /\ StagingClear(post)
               /\ vga_log[k].out = <<Ack>>

(* CANVAS 2 was handled by a VGA showing a 640x480 canvas with plane 1      *)
(* programmed.                                                              *)
C11_Witness ==
    \E k \in 1..Len(vga_log) :
        /\ IsCh0Write(k, 0)
        /\ vga_log[k].event.value = 2
        /\ vga_log[k].pre.planes[1] # None
        /\ vga_log[k].pre.canvas_width = 640
        /\ VgaPost(k).canvas_height = 180

(* vga_log[k] is a channel-0 MODE write with value 1, 2 or 3 *)
IsModeWrite(k) == IsCh0Write(k, 1) /\ vga_log[k].event.value \in 1..3

(* The operands the MODE write of vga_log[k] finds staged *)
StagedAttr(k) == vga_log[k].pre.xregs[2]
StagedConfigPtr(k) == vga_log[k].pre.xregs[3]
StagedPlaneIdx(k) == vga_log[k].pre.xregs[4]
StagedBegin(k) == vga_log[k].pre.xregs[5]
StagedEnd(k) == vga_log[k].pre.xregs[6]

(* Bytes of the configuration structure of a mode (Mode1Config and          *)
(* Mode2Config: 16; Mode3Config: 14)                                        *)
StructSize(mode) == IF mode = 3 THEN 14 ELSE 16

ValidAttr(mode, attr) ==
    CASE mode = 1 -> Mode1Format_from_attr(attr)
      [] mode = 2 -> Mode2Format_from_attr(attr)
      [] OTHER -> ColorFormat_from_attr(attr)

CrossesXramEnd(k) ==
    StagedConfigPtr(k) + StructSize(vga_log[k].event.value) > 65536

ValidOperands(k) ==
    /\ StagedPlaneIdx(k) < 3
    /\ StagedConfigPtr(k) % 2 = 0
    /\ ~CrossesXramEnd(k)
    /\ ValidAttr(vga_log[k].event.value, StagedAttr(k))

(* C12: a channel-0 MODE write with value 1, 2 or 3 and valid operands      *)
(* installs in slot plane_idx a descriptor of that mode with the staged     *)
(* format, scanline_begin, scanline_end and config_ptr, leaves the other    *)
(* two slots and the canvas size unchanged, and sends exactly one Ack.      *)
C12_ModeInstallsPlane ==
    \A k \in 1..Len(vga_log) :
        (IsModeWrite(k) /\ ValidOperands(k)) =>
            LET pre == vga_log[k].pre
                post == VgaPost(k)
                p == post.planes[StagedPlaneIdx(k)]
            IN /\ p.mode = vga_log[k].event.value
               /\ p.format = StagedAttr(k)
               /\ p.scanline_begin = StagedBegin(k)
               /\ p.scanline_end = StagedEnd(k)
               /\ p.config_ptr = StagedConfigPtr(k)
               /\ \A i \in 0..2 : i # StagedPlaneIdx(k) => post.planes[i] = pre.planes[i]
               /\ post.canvas_width = pre.canvas_width
               /\ post.canvas_height = pre.canvas_height
               /\ vga_log[k].out = <<Ack>>

(* A Mode 2 plane with its structure in the last 16 bytes of XRAM replaced  *)
(* the Mode 3 plane of slot 1 while slot 0 held a Mode 1 plane.             *)
C12_Witness ==
    \E k \in 1..Len(vga_log) :
        /\ IsModeWrite(k) /\ ValidOperands(k)
        /\ vga_log[k].event.value = 2
        /\ StagedConfigPtr(k) = 65520
        /\ StagedBegin(k) # StagedEnd(k)
        /\ vga_log[k].pre.planes[1].mode = 3
        /\ vga_log[k].pre.planes[0].mode = 1
        /\ VgaPost(k).planes[1].mode = 2

(* C13: a MODE write with value 1, 2 or 3 that fails a programmer           *)
(* precondition (plane_idx >= 3, odd config_ptr, structure crossing the end *)
(* of XRAM, invalid attribute) sends Nak and no Ack.                        *)
C13_FailedModeNaks ==
    \A k \in 1..Len(vga_log) :
        (IsModeWrite(k) /\ ~ValidOperands(k)) => vga_log[k].out = <<Nak>>

(* C14: for each of the modes 1, 2 and 3, a MODE command whose even         *)
(* config_ptr makes the configuration structure extend past XRAM address    *)
(* 0xFFFF does not program the plane: the addressed slot keeps its content. *)
C14_CrossingConfigKeepsSlot ==
    \A k \in 1..Len(vga_log) :
        (/\ IsModeWrite(k)
         /\ StagedConfigPtr(k) % 2 = 0
         /\ CrossesXramEnd(k)
         /\ StagedPlaneIdx(k) < 3) =>
            VgaPost(k).planes[StagedPlaneIdx(k)] = vga_log[k].pre.planes[StagedPlaneIdx(k)]

-----------------------------------------------------------------------------
(* The Vsync messages of a backchannel content, in order *)
Vsyncs(q) == SelectSeq(q, LAMBDA msg : msg.type = "Vsync")

(* The step is the poll of the backchannel (with the rest of process()) *)
Polls == ria_pc = "poll" /\ ria_pc' # "poll"

(* log[t] is a CPU read or write of the IRQ register *)
IsIrqAccess(t) == log[t].kind = "txn" /\ log[t].txn.addr = IRQ

(* C15: each drained Vsync(frame) stores frame in reg[VSYNC]; the IRQ line  *)
(* goes low only when a Vsync is drained while bit 0 of the IRQ enable byte *)
(* is set; every CPU read or write of 0xFFF0 sets the line high; so the     *)
(* line is low only in states where enable bit 0 is set.                    *)
C15_IrqLine ==
    /\ [](/\ \A t \in 1..Len(log) : IsIrqAccess(t) => log[t].post.irq_pin
          /\ ~ria.irq_pin => ria.irq_enabled % 2 = 1)
    /\ [][/\ (Polls /\ Vsyncs(back) # <<>>) =>
                log'[Len(log')].pre.regs[3] = Vsyncs(back)[Len(Vsyncs(back))].frame
          /\ (ria.irq_pin /\ ~ria'.irq_pin) =>
                Polls /\ Vsyncs(back) # <<>> /\ ria.irq_enabled % 2 = 1]_vars

(* A read of 0xFFF0 found the line low after Vsync 0x81 was drained, and    *)
(* set it high.                                                             *)
C15_Witness ==
    \E t \in 1..Len(log) :
        /\ IsIrqAccess(t) /\ log[t].txn.rw
        /\ ~log[t].pre.irq_pin
        /\ log[t].pre.regs[3] = 129
        /\ log[t].post.irq_pin

(* The enable bits most recently written to 0xFFF0 before log[t] (0, the    *)
(* value of Ria::new, when there was no such write)                         *)
EnableWritten(t) ==
    LET writes == {j \in 1..(t - 1) : IsIrqAccess(j) /\ ~log[j].txn.rw}
    IN IF writes = {} THEN 0
       ELSE log[CHOOSE j \in writes : \A i \in writes : i <= j].txn.data

(* C16: a CPU read of the IRQ register 0xFFF0 returns the enable bits most  *)
(* recently written to 0xFFF0, whatever OP writes happened in between.      *)
C16_IrqReadReturnsEnable ==
    \A t \in 1..Len(log) :
        (IsIrqAccess(t) /\ log[t].txn.rw) => log[t].ret = EnableWritten(t)

-----------------------------------------------------------------------------
(* FrameSyncs the VGA had processed when the run was taken up (fewer than   *)
(* 256, so its frame counter had not wrapped)                               *)
FramesShownBefore == IF vga_log = <<>> THEN vga.frame_count ELSE vga_log[1].pre.frame_count

(* vga_log[j] is the k-th FrameSync the VGA processes *)
FrameNumber(j) ==
    FramesShownBefore +
    Cardinality({i \in 1..j : vga_log[i].event.type = "FrameSync"})

(* The Vsync bytes the VGA has sent, in order *)
VsyncBytes ==
    LET RECURSIVE Outs(_)
        Outs(j) == IF j = 0 THEN <<>> ELSE Outs(j - 1) \o Vsyncs(vga_log[j].out)
        sent == Outs(Len(vga_log))
    IN [i \in 1..Len(sent) |-> sent[i].frame]

(* C17: for the k-th FrameSync it processes the VGA renders and publishes   *)
(* one frame and sends exactly one Vsync with byte 0x80 | (k mod 16); it    *)
(* sends a Vsync for no other event, so every Vsync byte has its high bit   *)
(* set, bits 6..4 clear and a low nibble one more (mod 16) than the one     *)
(* before.                                                                  *)
C17_VsyncPerFrame ==
    /\ \A j \in 1..Len(vga_log) :
          IF vga_log[j].event.type = "FrameSync"
          THEN /\ vga_log[j].out = <<Vsync(128 + (FrameNumber(j) % 16))>>
               /\ j = Len(vga_log) => fb = <<render_frame(vga_log[j].pre)>>
          ELSE Vsyncs(vga_log[j].out) = <<>>
    /\ \A i \in 1..Len(VsyncBytes) :
          /\ VsyncBytes[i] \in 128..143
          /\ i > 1 => VsyncBytes[i] % 16 = (VsyncBytes[i - 1] + 1) % 16

(* The VGA processed its 15th and 16th FrameSync: the nibble went from 0xF  *)
(* to 0x0.                                                                  *)
C17_Witness ==
    \E j \in 2..Len(vga_log) :
        /\ vga_log[j].event.type = "FrameSync"
        /\ FrameNumber(j) = 16
        /\ vga_log[j].out = <<Vsync(128)>>
        /\ Len(VsyncBytes) = 2
        /\ VsyncBytes[1] = 143

-----------------------------------------------------------------------------
(* The FrameSync events the RIA has sent *)
FrameSyncsSent == Len(SelectSeq(pix_sent, LAMBDA ev : ev.type = "FrameSync"))

(* C18: for a trace with non-decreasing cycle stamps the RIA issues one     *)
(* FrameSync for every frame boundary (positive multiple of 133333 cycles)  *)
(* the cycle counter reaches or passes: once the whole trace is processed,  *)
(* the number of FrameSyncs sent is floor(last_cycle / 133333).             *)
C18_FrameSyncPerBoundary ==
    (ria_pc = "done" /\ idx = Len(trace)) =>
        FrameSyncsSent = trace[Len(trace)].cycle \div cycles_per_frame

-----------------------------------------------------------------------------
(* log[t] is the CPU writing 0xFF to OP *)
IsExit(t) ==
    /\ log[t].kind = "txn"
    /\ ~log[t].txn.rw /\ log[t].txn.addr = OP /\ log[t].txn.data = 255

Exited == \E t \in 1..Len(log) : IsExit(t)

(* C19: after the CPU writes 0xFF to OP the RIA is halted: no later         *)
(* transaction of the trace is processed, none changes the RIA's registers, *)
(* XRAM, xstack or IRQ state, and none produces a PIX event.                *)
C19_ExitHalts ==
    /\ [](\A t \in 1..Len(log) : IsExit(t) => t = Len(log) /\ ~log[t].post.running)
    /\ [][Exited => ria' = ria /\ pix_sent' = pix_sent /\ idx' = idx]_vars

(* The run ended after an exit with transactions of the trace left, the     *)
(* next one a frame later.                                                  *)
C19_Witness ==
    /\ Exited
    /\ ria_pc = "done"
    /\ idx < Len(trace)
    /\ crossed(ria, trace[idx + 1])

-----------------------------------------------------------------------------
(* C20: for every finite bus trace that ends with the exit OP, under fair   *)
(* scheduling of the two threads both the RIA loop and the VGA event loop   *)
(* eventually terminate, with the PIX sender and the backchannel sender     *)
(* released.                                                                *)
C20_BothTerminate ==
    <>[](ria_pc = "done" /\ vga_pc = "done" /\ ~pix_open /\ ~back_open)

(* Both loops have ended after the exit OP, the last transaction of the     *)
(* trace, was processed and the VGA had shown a frame.                      *)
C20_Witness ==
    /\ ria_pc = "done" /\ vga_pc = "done" /\ ~pix_open /\ ~back_open
    /\ idx = Len(trace) /\ IsExit(Len(log))
    /\ \E j \in 1..Len(vga_log) : vga_log[j].event.type = "FrameSync"

-----------------------------------------------------------------------------
(* Index in pix_sent of the last FrameSync the RIA enqueued (0: none) *)
LastFrameSync ==
    LET ks == {k \in 1..Len(pix_sent) : IsFrameSync(pix_sent[k])}
    IN IF ks = {} THEN 0 ELSE CHOOSE k \in ks : \A n \in ks : n <= k

(* The VGA that has handled the first n events the RIA enqueued *)
VgaAfterSent(n) == handle_all([vga |-> VgaNew, out |-> <<>>], pix_sent, 1, n).vga

(* C21: every PIX event the RIA enqueued before it dropped its sender, also *)
(* a FrameSync sent by the transaction carrying the exit OP, is handled by  *)
(* the VGA before its loop returns; the last FrameSync enqueued publishes a *)
(* frame that reflects every Xram and Reg event enqueued before it.         *)
C21_QueueDrained ==
    vga_pc = "done" =>
        /\ Received = pix_sent
        /\ LastFrameSync > 0 =>
              fb = <<render_frame(VgaAfterSent(LastFrameSync - 1))>>

(* The VGA loop has returned after the exit OP's own transaction sent the   *)
(* last FrameSync, behind an Xram event.                                    *)
C21_Witness ==
    /\ vga_pc = "done"
    /\ Exited
    /\ LastFrameSync > 1
    /\ IsExit(sent_by[LastFrameSync])
    /\ fb # <<>> /\ fb[1].xram # Zeroes

-----------------------------------------------------------------------------
(* vga/palette.rs *)

(* A u32 colour is kept as <<bits 31..16, bits 15..0>> *)
u32(r, g, b, a) == <<r * 256 + g, b * 256 + a>>

(* `pixel >> n` truncated to a byte (`as u8`), n a multiple of 8 *)
shr_as_u8(pixel, n) ==
    IF n >= 16 THEN (pixel[1] \div (2 ^ (n - 16))) % 256
    ELSE ((pixel[1] % 256) * (2 ^ (16 - n)) + (pixel[2] \div (2 ^ n))) % 256

rgba(r, g, b) == u32(r, g, b, 255)

rgba_transparent(r, g, b) == u32(r, g, b, 0)

(* Indexed from 0, as the arrays are *)
PALETTE_2 == [i \in 0..1 |-> IF i = 0 THEN rgba_transparent(0, 0, 0) ELSE rgba(192, 192, 192)]

PALETTE_256 ==
    LET ansi == <<rgba(205, 0, 0), rgba(0, 205, 0), rgba(205, 205, 0), rgba(0, 0, 238),
                  rgba(205, 0, 205), rgba(0, 205, 205), rgba(229, 229, 229),
                  rgba(127, 127, 127), rgba(255, 0, 0), rgba(0, 255, 0),
                  rgba(255, 255, 0), rgba(92, 92, 255), rgba(255, 0, 255),
                  rgba(0, 255, 255), rgba(255, 255, 255)>>
        levels == <<0, 95, 135, 175, 215, 255>>
    IN [i \in 0..255 |->
          IF i = 0 THEN rgba_transparent(0, 0, 0)
          ELSE IF i < 16 THEN ansi[i]
          ELSE IF i < 232
          THEN rgba(levels[((i - 16) \div 36) + 1],
                    levels[(((i - 16) \div 6) % 6) + 1],
                    levels[((i - 16) % 6) + 1])
          ELSE rgba(8 + (i - 232) * 10, 8 + (i - 232) * 10, 8 + (i - 232) * 10)]

rgb565_to_rgba(raw) ==
    LET alpha == IF (raw \div 32) % 2 # 0 THEN 255 ELSE 0
        r5 == raw % 32
        g5 == (raw \div 64) % 32
        b5 == (raw \div 2048) % 32
        r == ((r5 * 8) % 256) + (r5 \div 4)
        g == ((g5 * 8) % 256) + (g5 \div 4)
        b == ((b5 * 8) % 256) + (b5 \div 4)
    IN u32(r, g, b, alpha)

-----------------------------------------------------------------------------
(* vga/mode3.rs: the bitmap renderer.  The render loops visit each canvas   *)
(* pixel at most once and decide it from the plane and the XRAM alone, so   *)
(* the renderer is kept as what one visit does.                             *)

(* The fields of a config, by their offset in the structure *)
cfg_bool(config, offset) == config[offset + 1] # 0
cfg_u16(config, offset) == from_le_bytes(config[offset + 1], config[offset + 2])
cfg_i16(config, offset) ==
    LET u == cfg_u16(config, offset) IN IF u >= 32768 THEN u - 65536 ELSE u

(* Mutant of product_exceeds: the size is never found too large. *)
product_exceeds_unchecked(a, b, limit) == FALSE

(* `a * b > limit` for a >= 1, the product taken in usize: it can pass the  *)
(* 32 bits of the model's integers, so it is compared without being formed. *)
product_exceeds(a, b, limit) == b > limit \div a

(* ColorFormat::bits_per_pixel *)
bits_per_pixel(format) ==
    CASE format \in {0, 8} -> 1
      [] format \in {1, 9} -> 2
      [] format \in {2, 10} -> 4
      [] format = 3 -> 8
      [] format = 4 -> 16

(* Whether resolve_palette reads the palette from XRAM *)
custom_palette(count, palette_ptr) ==
    palette_ptr % 2 = 0 /\ palette_ptr > 0 /\ palette_ptr + count * 2 <= 65536

(* mode3::resolve_palette: the palette, indexed from 0 *)
resolve_palette(xram, format, palette_ptr) ==
    IF format = 4 THEN <<>>
    ELSE LET count == 2 ^ bits_per_pixel(format)
         IN IF custom_palette(count, palette_ptr)
            THEN [i \in 0..(count - 1) |->
                    rgb565_to_rgba(from_le_bytes(Get(xram, palette_ptr + i * 2),
                                                 Get(xram, palette_ptr + i * 2 + 1)))]
            ELSE IF count = 2 THEN PALETTE_2
            ELSE [i \in 0..(count - 1) |-> PALETTE_256[i]]

(* The XRAM indexes resolve_palette reads *)
resolve_palette_reads(format, palette_ptr) ==
    IF format = 4 THEN {}
    ELSE LET count == 2 ^ bits_per_pixel(format)
         IN IF custom_palette(count, palette_ptr)
            THEN palette_ptr..(palette_ptr + count * 2 - 1)
            ELSE {}

(* `if idx < palette.len() { palette[idx] } else { 0 }` *)
palette_entry(palette, index) ==
    IF index \in DOMAIN palette THEN palette[index] ELSE u32(0, 0, 0, 0)

(* mode3::get_pixel on data = &xram[row_offset..]: [at, idx], the XRAM      *)
(* index it reads and the palette index it extracts from the byte there.    *)
get_pixel(xram, row_offset, col, format) ==
    LET per == 8 \div bits_per_pixel(format)
        at == row_offset + (col \div per)
        byte == Get(xram, at)
        k == col % per
    IN [at |-> at,
        idx |-> CASE format = 3 -> byte
                  [] format = 2 -> IF k = 0 THEN byte \div 16 ELSE byte % 16
                  [] format = 10 -> IF k = 0 THEN byte % 16 ELSE byte \div 16
                  [] format = 1 -> (byte \div (2 ^ (6 - k * 2))) % 4
                  [] format = 9 -> (byte \div (2 ^ (k * 2))) % 4
                  [] format = 0 -> (byte \div (2 ^ (7 - k))) % 2
                  [] format = 8 -> (byte \div (2 ^ k)) % 2]

(* Mutant of visits_scanline: the loop runs over the whole canvas whatever  *)
(* the plane's scanline window.                                             *)
visits_scanline_whole_canvas(plane, canvas_height, scanline) ==
    ~(scanline < 0 \/ scanline >= canvas_height)

(* Whether a render loop reaches the scanline: it runs over scanline_begin  *)
(* .. scanline_end (the canvas height when scanline_end is 0) and skips the *)
(* scanlines past the canvas.                                               *)
visits_scanline(plane, canvas_height, scanline) ==
    LET y_end == IF plane.scanline_end = 0 THEN canvas_height ELSE plane.scanline_end
    IN /\ plane.scanline_begin <= scanline /\ scanline < y_end
       /\ ~(scanline < 0 \/ scanline >= canvas_height)

(* What a renderer does at one canvas pixel: the XRAM indexes it reads, and *)
(* px, <<the colour>> it computes there or <<>> when it skips the pixel.    *)
Visit(reads, px) == [reads |-> reads, px |-> px]
Skipped == Visit({}, <<>>)

(* render_mode3 at (screen_x, scanline) *)
render_mode3(plane, xram, canvas_width, canvas_height, screen_x, scanline) ==
    LET cfg == plane.config
        x_wrap == cfg_bool(cfg, 0)
        y_wrap == cfg_bool(cfg, 1)
        x_pos_px == cfg_i16(cfg, 2)
        y_pos_px == cfg_i16(cfg, 4)
        width_px == cfg_i16(cfg, 6)
        height_px == cfg_i16(cfg, 8)
        xram_data_ptr == cfg_u16(cfg, 10)
        xram_palette_ptr == cfg_u16(cfg, 12)
    IN IF width_px < 1 \/ height_px < 1 THEN Skipped
       ELSE
       LET bpp == bits_per_pixel(plane.format)
           sizeof_row == (width_px * bpp + 7) \div 8
       IN IF product_exceeds(height_px, sizeof_row, 65536 - xram_data_ptr) THEN Skipped
          ELSE IF ~visits_scanline(plane, canvas_height, scanline) THEN Skipped
          ELSE
          LET row0 == scanline - y_pos_px
              row == IF y_wrap THEN row0 % height_px ELSE row0
              col0 == screen_x - x_pos_px
              col == IF x_wrap THEN col0 % width_px ELSE col0
          IN IF row < 0 \/ row >= height_px THEN Skipped
             ELSE IF ~(0 <= screen_x /\ screen_x < canvas_width) THEN Skipped
             ELSE IF col < 0 \/ col >= width_px THEN Skipped
             ELSE
             LET row_offset == xram_data_ptr + row * sizeof_row
             IN IF plane.format = 4
                THEN LET byte_offset == row_offset + col * 2
                     IN IF byte_offset + 1 < 65536
                        THEN Visit({byte_offset, byte_offset + 1},
                                   <<rgb565_to_rgba(from_le_bytes(Get(xram, byte_offset),
                                                                  Get(xram, byte_offset + 1)))>>)
                        ELSE Visit({}, <<u32(0, 0, 0, 0)>>)
                ELSE LET g == get_pixel(xram, row_offset, col, plane.format)
                         palette == resolve_palette(xram, plane.format, xram_palette_ptr)
                     IN Visit({g.at}, <<palette_entry(palette, g.idx)>>)

-----------------------------------------------------------------------------
(* vga/palette.rs, resolve_palette(xram, bpp, palette_ptr) as vga/mode1.rs   *)
(* and vga/mode2.rs call it: no palette at 16 bpp; the palette in XRAM when *)
(* palette_ptr is nonzero, even and leaves room for 2^bpp entries; else     *)
(* PALETTE_2 at 1 bpp and PALETTE_256 at the other depths.                  *)
palette_resolve_palette(xram, bpp, palette_ptr) ==
    IF bpp = 16 THEN <<>>
    ELSE IF custom_palette(2 ^ bpp, palette_ptr)
    THEN [i \in 0..(2 ^ bpp - 1) |->
            rgb565_to_rgba(from_le_bytes(Get(xram, palette_ptr + i * 2),
                                         Get(xram, palette_ptr + i * 2 + 1)))]
    ELSE IF bpp = 1 THEN PALETTE_2
    ELSE PALETTE_256

palette_resolve_palette_reads(bpp, palette_ptr) ==
    IF bpp # 16 /\ custom_palette(2 ^ bpp, palette_ptr)
    THEN palette_ptr..(palette_ptr + 2 ^ bpp * 2 - 1)
    ELSE {}

(* vga/font.rs: the built-in fonts, 256 bytes for each row of the glyphs.   *)
(* The tables stand for themselves here: row r of glyph g is the byte g.    *)
FONT8 == [i \in 0..(256 * 8 - 1) |-> i % 256]
FONT16 == [i \in 0..(256 * 16 - 1) |-> i % 256]

-----------------------------------------------------------------------------
(* vga/mode1.rs: the character renderer *)

(* Mode1Format::font_height, cell_size, bpp *)
font_height(format) == IF format < 8 THEN 8 ELSE 16

cell_size(format) ==
    CASE format % 8 = 0 -> 1
      [] format % 8 \in {1, 2} -> 2
      [] format % 8 = 3 -> 3
      [] format % 8 = 4 -> 6

mode1_bpp(format) ==
    CASE format % 8 = 0 -> 1
      [] format % 8 \in {1, 2} -> 4
      [] format % 8 = 3 -> 8
      [] format % 8 = 4 -> 16

(* mode1::resolve_font: whether the font is read from XRAM *)
xram_font(font_ptr, height) == font_ptr + 256 * height <= 65536

(* font[k], with the XRAM indexes the access reads *)
font_byte(xram, font_ptr, height, k) ==
    IF xram_font(font_ptr, height)
    THEN [reads |-> {font_ptr + k}, byte |-> Get(xram, font_ptr + k)]
    ELSE [reads |-> {}, byte |-> IF height = 8 THEN FONT8[k] ELSE FONT16[k]]

(* mode1::resolve_cell_colors: [reads, bg, fg] *)
resolve_cell_colors(xram, format, cell_offset, palette) ==
    CASE format % 8 = 0 ->
            [reads |-> {}, bg |-> palette_entry(palette, 0), fg |-> palette_entry(palette, 1)]
      [] format % 8 = 1 ->
            LET fb_byte == Get(xram, cell_offset + 1)
            IN [reads |-> {cell_offset + 1},
                bg |-> palette_entry(palette, fb_byte % 16),
                fg |-> palette_entry(palette, fb_byte \div 16)]
      [] format % 8 = 2 ->
            LET bf_byte == Get(xram, cell_offset + 1)
            IN [reads |-> {cell_offset + 1},
                bg |-> palette_entry(palette, bf_byte \div 16),
                fg |-> palette_entry(palette, bf_byte % 16)]
      [] format % 8 = 3 ->
            [reads |-> {cell_offset + 1, cell_offset + 2},
             bg |-> palette_entry(palette, Get(xram, cell_offset + 2)),
             fg |-> palette_entry(palette, Get(xram, cell_offset + 1))]
      [] format % 8 = 4 ->
            [reads |-> (cell_offset + 2)..(cell_offset + 5),
             bg |-> rgb565_to_rgba(from_le_bytes(Get(xram, cell_offset + 4),
                                                 Get(xram, cell_offset + 5))),
             fg |-> rgb565_to_rgba(from_le_bytes(Get(xram, cell_offset + 2),
                                                 Get(xram, cell_offset + 3)))]

(* render_mode1 at (screen_x, scanline) *)
render_mode1(plane, xram, canvas_width, canvas_height, screen_x, scanline) ==
    LET cfg == plane.config
        x_wrap == cfg_bool(cfg, 0)
        y_wrap == cfg_bool(cfg, 1)
        x_pos_px == cfg_i16(cfg, 2)
        y_pos_px == cfg_i16(cfg, 4)
        width_chars == cfg_i16(cfg, 6)
        height_chars == cfg_i16(cfg, 8)
        xram_data_ptr == cfg_u16(cfg, 10)
        xram_palette_ptr == cfg_u16(cfg, 12)
        xram_font_ptr == cfg_u16(cfg, 14)
        height == font_height(plane.format)
        size == cell_size(plane.format)
    IN IF width_chars < 1 \/ height_chars < 1 THEN Skipped
       ELSE
       LET height_px == height_chars * height
           sizeof_row == width_chars * size
           width_px == width_chars * 8
       IN IF product_exceeds(height_chars, sizeof_row, 65536 - xram_data_ptr) THEN Skipped
          ELSE IF ~visits_scanline(plane, canvas_height, scanline) THEN Skipped
          ELSE
          LET row0 == scanline - y_pos_px
              row == IF y_wrap THEN row0 % height_px ELSE row0
              col0 == screen_x - x_pos_px
              col == IF x_wrap THEN col0 % width_px ELSE col0
          IN IF row < 0 \/ row >= height_px THEN Skipped
             ELSE IF ~(0 <= screen_x /\ screen_x < canvas_width) THEN Skipped
             ELSE IF col < 0 \/ col >= width_px THEN Skipped
             ELSE
             LET char_row == row \div height
                 font_row_offset == (row % height) * 256
                 row_data_offset == xram_data_ptr + char_row * sizeof_row
                 bit_in_char == 7 - (col % 8)
                 cell_offset == row_data_offset + (col \div 8) * size
             IN IF cell_offset >= 65536 THEN Skipped
                ELSE
                LET glyph_code == Get(xram, cell_offset)
                    f == font_byte(xram, xram_font_ptr, height, font_row_offset + glyph_code)
                    bit == (f.byte \div (2 ^ bit_in_char)) % 2
                    palette == palette_resolve_palette(xram, mode1_bpp(plane.format),
                                                       xram_palette_ptr)
                    c == resolve_cell_colors(xram, plane.format, cell_offset, palette)
                IN Visit({cell_offset} \cup f.reads \cup c.reads,
                         <<IF bit = 1 THEN c.fg ELSE c.bg>>)

-----------------------------------------------------------------------------
(* vga/mode2.rs: the tile renderer *)

(* Mode2Format::tile_size, bpp, row_size, tile_bytes *)
tile_size(format) == IF format < 8 THEN 8 ELSE 16
mode2_bpp(format) == 2 ^ (format % 8)
row_size(format) == IF tile_size(format) = 8 THEN mode2_bpp(format) ELSE 2 * mode2_bpp(format)
tile_bytes(format) == row_size(format) * tile_size(format)

(* mode2::get_tile_pixel *)
get_tile_pixel(tile_byte, pixel_in_byte, bpp) ==
    CASE bpp = 1 -> (tile_byte \div (2 ^ (7 - pixel_in_byte))) % 2
      [] bpp = 2 -> (tile_byte \div (2 ^ (6 - pixel_in_byte * 2))) % 4
      [] bpp = 4 -> IF pixel_in_byte = 0 THEN tile_byte \div 16 ELSE tile_byte % 16
      [] bpp = 8 -> tile_byte
      [] OTHER -> 0

(* render_mode2 at (screen_x, scanline) *)
render_mode2(plane, xram, canvas_width, canvas_height, screen_x, scanline) ==
    LET cfg == plane.config
        x_wrap == cfg_bool(cfg, 0)
        y_wrap == cfg_bool(cfg, 1)
        x_pos_px == cfg_i16(cfg, 2)
        y_pos_px == cfg_i16(cfg, 4)
        width_tiles == cfg_i16(cfg, 6)
        height_tiles == cfg_i16(cfg, 8)
        xram_data_ptr == cfg_u16(cfg, 10)
        xram_palette_ptr == cfg_u16(cfg, 12)
        xram_tile_ptr == cfg_u16(cfg, 14)
        size == tile_size(plane.format)
        bpp == mode2_bpp(plane.format)
        pixels_per_byte == 8 \div bpp
    IN IF width_tiles < 1 \/ height_tiles < 1 THEN Skipped
       ELSE
       LET height_px == height_tiles * size
           width_px == width_tiles * size
       IN IF product_exceeds(height_tiles, width_tiles, 65536 - xram_data_ptr) THEN Skipped
          ELSE IF ~visits_scanline(plane, canvas_height, scanline) THEN Skipped
          ELSE
          LET row0 == scanline - y_pos_px
              row == IF y_wrap THEN row0 % height_px ELSE row0
              col0 == screen_x - x_pos_px
              col == IF x_wrap THEN col0 % width_px ELSE col0
          IN IF row < 0 \/ row >= height_px THEN Skipped
             ELSE IF ~(0 <= screen_x /\ screen_x < canvas_width) THEN Skipped
             ELSE IF col < 0 \/ col >= width_px THEN Skipped
             ELSE
             LET map_offset == xram_data_ptr + (row \div size) * width_tiles + (col \div size)
             IN IF map_offset >= 65536 THEN Skipped
                ELSE
                LET tile_id == Get(xram, map_offset)
                    pixel_in_tile_col == col % size
                    tile_addr == xram_tile_ptr + tile_id * tile_bytes(plane.format)
                                 + (row % size) * row_size(plane.format)
                                 + (pixel_in_tile_col \div pixels_per_byte)
                IN IF tile_addr >= 65536 THEN Visit({map_offset}, <<>>)
                   ELSE
                   LET palette == palette_resolve_palette(xram, bpp, xram_palette_ptr)
                       pixel_idx == get_tile_pixel(Get(xram, tile_addr),
                                                   pixel_in_tile_col % pixels_per_byte, bpp)
                   IN Visit({map_offset, tile_addr}, <<palette_entry(palette, pixel_idx)>>)

-----------------------------------------------------------------------------
(* vga/mod.rs: compositing and upscale, on a published buffer kept as its   *)
(* inputs (see render_frame above).                                         *)

DISPLAY_WIDTH == 640
DISPLAY_HEIGHT == 480

(* The arm of render_frame's match that renders one plane *)
render_plane(plane, xram, canvas_width, canvas_height, screen_x, scanline) ==
    CASE plane.mode = 1 ->
            render_mode1(plane, xram, canvas_width, canvas_height, screen_x, scanline)
      [] plane.mode = 2 ->
            render_mode2(plane, xram, canvas_width, canvas_height, screen_x, scanline)
      [] plane.mode = 3 ->
            render_mode3(plane, xram, canvas_width, canvas_height, screen_x, scanline)
      [] OTHER -> Skipped

(* Mutant of store: a computed colour is stored whatever its alpha. *)
store_any_alpha(prev, px) == IF px # <<>> THEN px[1] ELSE prev

(* The store that ends a renderer's visit,                                  *)
(* `if rgba & 0xFF != 0 { framebuffer[fb_idx] = rgba; }`                    *)
store(prev, px) == IF px # <<>> /\ shr_as_u8(px[1], 0) # 0 THEN px[1] ELSE prev

(* canvas_buf[scanline * w + screen_x] when render_frame has cleared the    *)
(* canvas and rendered the planes in slot order                             *)
canvas_pixel(f, screen_x, scanline) ==
    LET px(i) == render_plane(f.planes[i], f.xram, f.w, f.h, screen_x, scanline).px
    IN store(store(store(u32(0, 0, 0, 0), px(0)), px(1)), px(2))

(* &canvas_buf[..pixel_count], by index *)
canvas_buf(f) == [i \in 0..(f.w * f.h - 1) |-> canvas_pixel(f, i % f.w, i \div f.w)]

(* upscale_canvas: the display indexes `idx` at which canvas pixel (cx, cy) *)
(* writes its four bytes idx .. idx + 3                                     *)
upscale_block(canvas_w, canvas_h, cx, cy) ==
    LET sx == DISPLAY_WIDTH \div canvas_w
        sy == DISPLAY_HEIGHT \div (IF canvas_h > 1 THEN canvas_h ELSE 1)
    IN { ((cy * sy + dy) * DISPLAY_WIDTH + (cx * sx + dx)) * 4 :
            dy \in {d \in 0..(sy - 1) : cy * sy + d < DISPLAY_HEIGHT},
            dx \in {d \in 0..(sx - 1) : cx * sx + d < DISPLAY_WIDTH} }

(* Mutant of upscale_canvas: the channels are taken from the low byte up. *)
upscale_canvas_le(canvas, canvas_w, canvas_h, k) ==
    LET sx == DISPLAY_WIDTH \div canvas_w
        sy == DISPLAY_HEIGHT \div (IF canvas_h > 1 THEN canvas_h ELSE 1)
        display_x == (k \div 4) % DISPLAY_WIDTH
        display_y == (k \div 4) \div DISPLAY_WIDTH
        cxs == {cx \in 0..(canvas_w - 1) :
                   \E dx \in 0..(sx - 1) : cx * sx + dx = display_x /\ display_x < DISPLAY_WIDTH}
        cys == {cy \in 0..(canvas_h - 1) :
                   \E dy \in 0..(sy - 1) : cy * sy + dy = display_y /\ display_y < DISPLAY_HEIGHT}
    IN IF cxs = {} \/ cys = {} THEN 0
       ELSE LET cx == CHOOSE x \in cxs : \A o \in cxs : o <= x
                cy == CHOOSE y \in cys : \A o \in cys : o <= y
                pixel == canvas[cy * canvas_w + cx]
            IN shr_as_u8(pixel, 8 * (k % 4))

(* upscale_canvas: display[k] when it returns.  The display is cleared, and *)
(* then each canvas pixel (cx, cy), in order, writes its four bytes to the  *)
(* display pixels (cx * sx + dx, cy * sy + dy) that lie on the display.     *)
upscale_canvas(canvas, canvas_w, canvas_h, k) ==
    LET sx == DISPLAY_WIDTH \div canvas_w
        sy == DISPLAY_HEIGHT \div (IF canvas_h > 1 THEN canvas_h ELSE 1)
        display_x == (k \div 4) % DISPLAY_WIDTH
        display_y == (k \div 4) \div DISPLAY_WIDTH
        cxs == {cx \in 0..(canvas_w - 1) :
                   \E dx \in 0..(sx - 1) : cx * sx + dx = display_x /\ display_x < DISPLAY_WIDTH}
        cys == {cy \in 0..(canvas_h - 1) :
                   \E dy \in 0..(sy - 1) : cy * sy + dy = display_y /\ display_y < DISPLAY_HEIGHT}
    IN IF cxs = {} \/ cys = {} THEN 0
       ELSE LET cx == CHOOSE x \in cxs : \A o \in cxs : o <= x
                cy == CHOOSE y \in cys : \A o \in cys : o <= y
                pixel == canvas[cy * canvas_w + cx]
            IN shr_as_u8(pixel, 8 * (3 - (k % 4)))

(* The byte at index k of the buffer render_frame publishes *)
display(f, k) == upscale_canvas(canvas_buf(f), f.w, f.h, k)

-----------------------------------------------------------------------------
(* Scenes.  The run starts when the RIA has processed, and the VGA has      *)
(* handled, a program that selects a canvas, writes configs, bitmaps,       *)
(* character cells, tiles, palettes and fonts into XRAM through portal 0    *)
(* and programs up to three planes; the trace left crosses a frame          *)
(* boundary, so that the VGA renders the scene.                             *)

(* TraceBuilder::set_addr0, xram0_write *)
TraceBuilder_set_addr0(b, addr) ==
    TraceBuilder_write(TraceBuilder_write(b, 65510, addr % 256), 65511, addr \div 256)

xram0_write(b, addr, data) ==
    LET b1 == TraceBuilder_set_addr0(b, addr)
    IN [trace |-> b1.trace \o
                  [k \in 1..Len(data) |->
                      [cycle |-> b1.cycle + k - 1, addr |-> 65508, data |-> data[k],
                       rw |-> FALSE]],
        cycle |-> b1.cycle + Len(data)]

(* i16::to_le_bytes *)
i16_to_le_bytes(val) == to_le_bytes((val + 65536) % 65536)

(* The bytes of a config structure; third is xram_font_ptr or xram_tile_ptr, *)
(* <<>> for Mode 3.                                                          *)
ConfigBytes(x_wrap, y_wrap, x_pos, y_pos, width, height, data_ptr, palette_ptr, third) ==
    <<x_wrap, y_wrap>> \o i16_to_le_bytes(x_pos) \o i16_to_le_bytes(y_pos)
    \o i16_to_le_bytes(width) \o i16_to_le_bytes(height)
    \o to_le_bytes(data_ptr) \o to_le_bytes(palette_ptr) \o third

(* A layer: the calls that write a config at config_ptr and the blobs       *)
(* <<address, bytes>> it points to, and then program the plane.             *)
Layer(mode, attr, config_ptr, plane_idx, scanline_begin, scanline_end, config, blobs) ==
    <<[op |-> "xram0_write", addr |-> config_ptr, data |-> config]>>
    \o [k \in 1..Len(blobs) |->
          [op |-> "xram0_write", addr |-> blobs[k][1], data |-> blobs[k][2]]]
    \o <<[op |-> "xreg_vga_mode",
          values |-> <<mode, attr, config_ptr, plane_idx, scanline_begin, scanline_end>>]>>

ConfigAt(slot) == 256 + 32 * slot
DataAt(slot) == 4096 + 1024 * slot
PaletteAt(slot) == 8192 + 32 * slot

(* The layers a scene is made of, by name, for plane slot `slot` *)
LayerNames ==
    {"bitmap8", "mono_wrap", "direct16", "text", "text16", "tiles",
     "overrun3", "end_fit16", "zero_width", "text_end", "tiles_far",
     "text_overrun", "negative", "crossing"}

LayerCalls(name, slot) ==
    CASE name = "bitmap8" ->
            \* 8 bpp, 4 x 3 at (2 + slot, 1 + slot), built-in palette, index 0 transparent
            Layer(3, 3, ConfigAt(slot), slot, 0, 0,
                  ConfigBytes(0, 0, 2 + slot, 1 + slot, 4, 3, DataAt(slot), 0, <<>>),
                  << <<DataAt(slot), <<1 + slot, 0, 2, 0, 0, 3, 0, 4, 5, 6 + slot, 0, 16>> >> >>)
      [] name = "mono_wrap" ->
            \* 1 bpp MSB first, 8 x 2, wrapped both ways, scanlines 1..99,
            \* palette in XRAM: entry 0 transparent, entry 1 opaque
            Layer(3, 0, ConfigAt(slot), slot, 1, 100,
                  ConfigBytes(1, 1, 3, 2, 8, 2, DataAt(slot), PaletteAt(slot), <<>>),
                  << <<DataAt(slot), <<165, 90>> >>,
                     <<PaletteAt(slot), <<192, 7, 63 - slot, 248>> >> >>)
      [] name = "direct16" ->
            \* 16 bpp, 3 x 2 at (-1, -1): alpha is bit 5 of each word
            Layer(3, 4, ConfigAt(slot), slot, 0, 0,
                  ConfigBytes(0, 0, -1, -1, 3, 2, DataAt(slot), 0, <<>>),
                  << <<DataAt(slot), <<63, 0, 31, 0, 224, 255, 0, 0, 32 + slot, 8, 192, 7>> >> >>)
      [] name = "text" ->
            \* 1 bpp 8x8 cells, 2 x 1 characters at (0, 0), built-in font and palette
            Layer(1, 0, ConfigAt(slot), slot, 0, 0,
                  ConfigBytes(0, 0, 0, 0, 2, 1, DataAt(slot), 0, <<255, 255>>),
                  << <<DataAt(slot), <<65 + slot, 170>> >> >>)
      [] name = "text16" ->
            \* 16 bpp 8x16 cell, 1 x 1 character at (4, 4), font in XRAM at 16384
            Layer(1, 12, ConfigAt(slot), slot, 0, 0,
                  ConfigBytes(0, 0, 4, 4, 1, 1, DataAt(slot), 0, <<0, 64>>),
                  << <<DataAt(slot), <<2, 0, 63 - slot, 0, 0, 0>> >>,
                     <<16384, <<0, 0, 240>> >>,
                     <<16384 + 256, <<0, 0, 15>> >> >>)
      [] name = "tiles" ->
            \* 1 bpp 8x8 tiles, 2 x 1 tiles at (1, 1), tile bank at 12288 + 64 * slot,
            \* palette in XRAM
            Layer(2, 0, ConfigAt(slot), slot, 0, 0,
                  ConfigBytes(0, 0, 1, 1, 2, 1, DataAt(slot), PaletteAt(slot),
                              to_le_bytes(12288 + 64 * slot)),
                  << <<DataAt(slot), <<1, 0>> >>,
                     <<12288 + 64 * slot, <<255, 129, 0, 0, 0, 0, 0, 1, 170, 85, 170>> >>,
                     <<PaletteAt(slot), <<0, 0, 224 + slot, 255>> >> >>)
      [] name = "overrun3" ->
            \* 8 bpp, 300 x 300: the bitmap does not fit in XRAM
            Layer(3, 3, ConfigAt(slot), slot, 0, 0,
                  ConfigBytes(1, 1, 0, 0, 300, 300, DataAt(slot), 0, <<>>),
                  << <<DataAt(slot), <<9, 9, 9>> >> >>)
      [] name = "end_fit16" ->
            \* 16 bpp, 2 x 2, wrapped, the bitmap in the last 8 bytes of XRAM
            Layer(3, 4, ConfigAt(slot), slot, 0, 0,
                  ConfigBytes(1, 1, 0, 0, 2, 2, 65528, 0, <<>>),
                  << <<65528, <<63, 0, 0, 0, 224, 7, 32 + slot, 248>> >> >>)
      [] name = "zero_width" ->
            Layer(3, 3, ConfigAt(slot), slot, 0, 0,
                  ConfigBytes(1, 1, 0, 0, 0, 3, DataAt(slot), 0, <<>>), <<>>)
      [] name = "text_end" ->
            \* 16 bpp 8x8 cell in the last 6 bytes of XRAM, font in the last 2048
            Layer(1, 4, ConfigAt(slot), slot, 0, 0,
                  ConfigBytes(1, 1, 0, 0, 1, 1, 65530, 65534, <<0, 248>>),
                  << <<65530, <<255, 0, 63, 0, 32 + slot, 0>> >> >>)
      [] name = "tiles_far" ->
            \* 8 bpp 16x16 tiles, tile 255 of a bank at 65280 lies past XRAM
            Layer(2, 11, ConfigAt(slot), slot, 0, 0,
                  ConfigBytes(1, 1, 0, 0, 1, 1, DataAt(slot), 65535, <<0, 255>>),
                  << <<DataAt(slot), <<255>> >> >>)
      [] name = "text_overrun" ->
            Layer(1, 3, ConfigAt(slot), slot, 0, 0,
                  ConfigBytes(1, 1, 0, 0, 32767, 32767, 65535, 0, <<0, 0>>), <<>>)
      [] name = "negative" ->
            Layer(2, 3, ConfigAt(slot), slot, 0, 0,
                  ConfigBytes(1, 1, 0, 0, -1, 5, DataAt(slot), 0, <<0, 48>>), <<>>)
      [] name = "crossing" ->
            \* a Mode 3 config that would pass the end of XRAM
            Layer(3, 3, 65524, slot, 0, 0, <<1, 1, 0, 0, 0, 0, 4, 0, 4, 0, 0, 16>>, <<>>)

(* The layers of a scene, bottom first: any one, and some of two and three *)
SceneLayers ==
    { <<a>> : a \in LayerNames }
    \cup { <<"bitmap8", "mono_wrap">>, <<"mono_wrap", "bitmap8">>, <<"direct16", "bitmap8">>,
           <<"text", "tiles">>, <<"tiles", "text16">>, <<"bitmap8", "bitmap8">>,
           <<"end_fit16", "mono_wrap">>, <<"overrun3", "bitmap8">> }
    \cup { <<"bitmap8", "mono_wrap", "direct16">>, <<"mono_wrap", "bitmap8", "bitmap8">>,
           <<"direct16", "text", "tiles">>, <<"text16", "tiles", "mono_wrap">>,
           <<"end_fit16", "text_end", "bitmap8">>, <<"overrun3", "end_fit16", "bitmap8">>, <<"tiles_far", "overrun3", "text">>,
           <<"mono_wrap", "zero_width", "direct16">>, <<"text_end", "crossing", "tiles">> }

scene_call(b, c) ==
    IF c.op = "xram0_write" THEN xram0_write(b, c.addr, c.data) ELSE call(b, c)

RECURSIVE build_scene(_, _)
build_scene(calls, b) ==
    IF calls = <<>> THEN b ELSE build_scene(Tail(calls), scene_call(b, Head(calls)))

SceneCalls(canvas, layers) ==
    <<[op |-> "xreg_vga_canvas", value |-> canvas]>>
    \o Flatten([k \in 1..Len(layers) |-> LayerCalls(layers[k], k - 1)])

(* What follows the set-up: a read a frame later; a portal write and then   *)
(* the read; the exit a frame later.                                        *)
SceneEndings == { <<R(4096, 1)>>, <<W(RW0, 7, 0), R(4096, 1)>>, <<W(OP, 255, 1)>> }

SceneStarts ==
    { LET b == build_scene(SceneCalls(canvas, layers), TraceBuilder_new(0))
      IN StartAfter(b.trace, stamp(ending, b.cycle)) :
        canvas \in 1..4, layers \in SceneLayers, ending \in SceneEndings }

InitRender == InitAt(SceneStarts)

SpecRender == InitRender /\ [][Next]_vars

-----------------------------------------------------------------------------
(* Canvas positions looked at in a published frame: the corner where the    *)
(* layers lie, the rows at the edge of a scanline window, and the far edges *)
(* of the canvas.                                                           *)
SampleColumns(f) == (0..9) \cup {f.w - 1}
SampleRows(f) == (0..5) \cup {99, 100, f.h - 1}

(* The VGA has just handled a FrameSync: fb holds the frame it published *)
FrameShown == vga_log # <<>> /\ IsFrameSync(vga_log[Len(vga_log)].event)

(* The colour plane slot i computes at (x, y) of frame f: <<>> or <<rgba>> *)
Source(f, i, x, y) == render_plane(f.planes[i], f.xram, f.w, f.h, x, y).px

(* The slots whose source pixel at (x, y) has a nonzero alpha byte *)
OpaqueSlots(f, x, y) ==
    {i \in 0..2 : Source(f, i, x, y) # <<>> /\ shr_as_u8(Source(f, i, x, y)[1], 0) # 0}

Topmost(S) == CHOOSE i \in S : \A j \in S : j <= i

(* C22: after a FrameSync, each canvas pixel of the frame holds the colour  *)
(* of the highest-indexed plane whose source pixel there has a nonzero      *)
(* alpha byte, and 0 when no plane has one.                                 *)
C22_TopmostOpaqueWins ==
    FrameShown =>
        \A x \in SampleColumns(fb[1]), y \in SampleRows(fb[1]) :
            LET opaque == OpaqueSlots(fb[1], x, y)
            IN canvas_pixel(fb[1], x, y) =
                  IF opaque = {} THEN u32(0, 0, 0, 0)
                  ELSE Source(fb[1], Topmost(opaque), x, y)[1]

(* A published frame of three planes with a pixel where the top plane's     *)
(* source is transparent over an opaque pixel of a lower plane, one where   *)
(* two planes are opaque, and one where no plane is.                        *)
C22_Witness ==
    /\ FrameShown
    /\ \A i \in 0..2 : fb[1].planes[i] # None
    /\ \E x \in SampleColumns(fb[1]), y \in SampleRows(fb[1]) :
          /\ Source(fb[1], 2, x, y) # <<>>
          /\ shr_as_u8(Source(fb[1], 2, x, y)[1], 0) = 0
          /\ OpaqueSlots(fb[1], x, y) # {}
          /\ canvas_pixel(fb[1], x, y) # u32(0, 0, 0, 0)
    /\ \E x \in SampleColumns(fb[1]), y \in SampleRows(fb[1]) :
          Cardinality(OpaqueSlots(fb[1], x, y)) >= 2
    /\ \E x \in SampleColumns(fb[1]), y \in SampleRows(fb[1]) :
          OpaqueSlots(fb[1], x, y) = {}

-----------------------------------------------------------------------------
(* canvas_buf at (x, y) when the planes of slots 0..n-1 have been rendered *)
RECURSIVE CanvasAfter(_, _, _, _)
CanvasAfter(f, n, x, y) ==
    IF n = 0 THEN u32(0, 0, 0, 0)
    ELSE store(CanvasAfter(f, n - 1, x, y), Source(f, n - 1, x, y))

(* A Mode 3 plane whose bitmap lies within XRAM *)
Mode3InBounds(p) ==
    /\ p.mode = 3
    /\ cfg_i16(p.config, 6) >= 1 /\ cfg_i16(p.config, 8) >= 1
    /\ cfg_i16(p.config, 8) * ((cfg_i16(p.config, 6) * bits_per_pixel(p.format) + 7) \div 8)
          <= 65536 - cfg_u16(p.config, 10)

(* (x, y) lies in [x_pos, x_pos + width_px) x [y_pos, y_pos + height_px),   *)
(* every column when x_wrap is set, every row when y_wrap is set            *)
InRegion(p, x, y) ==
    /\ \/ cfg_bool(p.config, 0)
       \/ cfg_i16(p.config, 2) <= x /\ x < cfg_i16(p.config, 2) + cfg_i16(p.config, 6)
    /\ \/ cfg_bool(p.config, 1)
       \/ cfg_i16(p.config, 4) <= y /\ y < cfg_i16(p.config, 4) + cfg_i16(p.config, 8)

(* y lies in the plane's scanline window, which ends at the canvas height   *)
(* when scanline_end is 0                                                   *)
InWindow(p, y, h) ==
    p.scanline_begin <= y /\ y < (IF p.scanline_end = 0 THEN h ELSE p.scanline_end)

(* C23 as stated: rendering a Mode 3 plane with an in-bounds bitmap writes  *)
(* every canvas pixel inside its region with the plane's colour there, and  *)
(* leaves every pixel outside as it was.                                    *)
C23_AsClaimed ==
    FrameShown =>
        \A i \in 0..2 :
            Mode3InBounds(fb[1].planes[i]) =>
                \A x \in SampleColumns(fb[1]), y \in SampleRows(fb[1]) :
                    IF InRegion(fb[1].planes[i], x, y)
                    THEN /\ Source(fb[1], i, x, y) # <<>>
                         /\ CanvasAfter(fb[1], i + 1, x, y) = Source(fb[1], i, x, y)[1]
                    ELSE CanvasAfter(fb[1], i + 1, x, y) = CanvasAfter(fb[1], i, x, y)

(* C23: rendering a Mode 3 plane with an in-bounds bitmap writes the canvas *)
(* pixels inside its region that lie in its scanline window and whose       *)
(* source pixel has a nonzero alpha byte, each with the plane's colour      *)
(* there, and leaves every other canvas pixel as it was.                    *)
C23_RegionWritten ==
    FrameShown =>
        \A i \in 0..2 :
            Mode3InBounds(fb[1].planes[i]) =>
                \A x \in SampleColumns(fb[1]), y \in SampleRows(fb[1]) :
                    IF InRegion(fb[1].planes[i], x, y) /\ InWindow(fb[1].planes[i], y, fb[1].h)
                    THEN /\ Source(fb[1], i, x, y) # <<>>
                         /\ CanvasAfter(fb[1], i + 1, x, y) =
                               IF shr_as_u8(Source(fb[1], i, x, y)[1], 0) # 0
                               THEN Source(fb[1], i, x, y)[1]
                               ELSE CanvasAfter(fb[1], i, x, y)
                    ELSE /\ Source(fb[1], i, x, y) = <<>>
                         /\ CanvasAfter(fb[1], i + 1, x, y) = CanvasAfter(fb[1], i, x, y)

(* A frame with an unwrapped in-bounds Mode 3 plane above another plane,    *)
(* with a pixel inside its region that it writes over the lower plane's,    *)
(* one inside that it leaves to the lower plane, and one outside; and a     *)
(* frame with a wrapped plane and a row outside its scanline window.        *)
C23_Witness ==
    /\ FrameShown
    /\ \E i \in 1..2 :
          LET p == fb[1].planes[i]
          IN /\ Mode3InBounds(p) /\ ~cfg_bool(p.config, 0) /\ ~cfg_bool(p.config, 1)
             /\ \E x \in SampleColumns(fb[1]), y \in SampleRows(fb[1]) :
                   /\ InRegion(p, x, y)
                   /\ CanvasAfter(fb[1], i, x, y) # u32(0, 0, 0, 0)
                   /\ CanvasAfter(fb[1], i + 1, x, y) # CanvasAfter(fb[1], i, x, y)
             /\ \E x \in SampleColumns(fb[1]), y \in SampleRows(fb[1]) :
                   /\ InRegion(p, x, y)
                   /\ shr_as_u8(Source(fb[1], i, x, y)[1], 0) = 0
                   /\ CanvasAfter(fb[1], i + 1, x, y) # u32(0, 0, 0, 0)
             /\ \E x \in SampleColumns(fb[1]), y \in SampleRows(fb[1]) :
                   ~InRegion(p, x, y) /\ CanvasAfter(fb[1], i, x, y) # u32(0, 0, 0, 0)
    /\ \E i \in 0..2 :
          LET p == fb[1].planes[i]
          IN /\ Mode3InBounds(p) /\ cfg_bool(p.config, 0) /\ cfg_bool(p.config, 1)
             /\ \E y \in SampleRows(fb[1]) : ~InWindow(p, y, fb[1].h)
             /\ \E x \in SampleColumns(fb[1]), y \in SampleRows(fb[1]) :
                   x >= cfg_i16(p.config, 2) + cfg_i16(p.config, 6)
                   /\ shr_as_u8(CanvasAfter(fb[1], i + 1, x, y), 0) # 0
                   /\ CanvasAfter(fb[1], i, x, y) = u32(0, 0, 0, 0)

-----------------------------------------------------------------------------
(* The positions at which a renderer is followed: the sampled ones, and the *)
(* first column and row past the canvas.                                    *)
ProbeColumns(f) == SampleColumns(f) \cup {f.w}
ProbeRows(f) == SampleRows(f) \cup {f.h}

(* Whether the data a plane's config describes (bitmap, character cells or  *)
(* tile map) would pass the end of XRAM, or a dimension is below 1.         *)
Unrenderable(p) ==
    LET width == cfg_i16(p.config, 6)
        height == cfg_i16(p.config, 8)
        unit == CASE p.mode = 1 -> width * cell_size(p.format)
                  [] p.mode = 2 -> width
                  [] p.mode = 3 -> (width * bits_per_pixel(p.format) + 7) \div 8
    IN \/ width < 1 \/ height < 1
       \/ unit > (65536 - cfg_u16(p.config, 10)) \div height

(* The XRAM indexes read when a plane's palette is resolved *)
PaletteReads(p) ==
    CASE p.mode = 1 -> palette_resolve_palette_reads(mode1_bpp(p.format), cfg_u16(p.config, 12))
      [] p.mode = 2 -> palette_resolve_palette_reads(mode2_bpp(p.format), cfg_u16(p.config, 12))
      [] p.mode = 3 -> resolve_palette_reads(p.format, cfg_u16(p.config, 12))

(* C24: handling a FrameSync reads XRAM only below 0x10000, stores canvas   *)
(* pixels only inside the canvas and display bytes only inside the display  *)
(* buffer; a plane whose data would pass the end of XRAM, or with a width   *)
(* or height below 1, reads and stores nothing, and the frame is published  *)
(* with what the other planes draw.                                         *)
C24_RenderingStaysInBounds ==
    FrameShown =>
        /\ fb = <<render_frame(vga_log[Len(vga_log)].pre)>>
        /\ \A i \in 0..2 :
              LET p == fb[1].planes[i]
              IN p # None =>
                 /\ PaletteReads(p) \subseteq 0..65535
                 /\ \A x \in ProbeColumns(fb[1]), y \in ProbeRows(fb[1]) :
                       LET visit == render_plane(p, fb[1].xram, fb[1].w, fb[1].h, x, y)
                       IN /\ visit.reads \subseteq 0..65535
                          /\ visit.px # <<>> =>
                                /\ x < fb[1].w /\ y < fb[1].h
                                /\ y * fb[1].w + x < DISPLAY_WIDTH * DISPLAY_HEIGHT
                          /\ Unrenderable(p) =>
                                /\ visit = Skipped
                                /\ x < fb[1].w /\ y < fb[1].h =>
                                      CanvasAfter(fb[1], i + 1, x, y) = CanvasAfter(fb[1], i, x, y)
        /\ \A x \in SampleColumns(fb[1]), y \in SampleRows(fb[1]) :
              \A at \in upscale_block(fb[1].w, fb[1].h, x, y) :
                  0 <= at /\ at + 3 < DISPLAY_WIDTH * DISPLAY_HEIGHT * 4

(* A frame in which a plane whose data passes the end of XRAM is skipped    *)
(* while another plane draws and a third reads the last byte of XRAM.       *)
C24_Witness ==
    /\ FrameShown
    /\ \E i \in 0..2 :
          LET p == fb[1].planes[i]
          IN /\ p # None /\ Unrenderable(p)
             /\ cfg_i16(p.config, 6) >= 1 /\ cfg_i16(p.config, 8) >= 1
    /\ \E x \in SampleColumns(fb[1]), y \in SampleRows(fb[1]) :
          canvas_pixel(fb[1], x, y) # u32(0, 0, 0, 0)
    /\ \E i \in 0..2, x \in SampleColumns(fb[1]), y \in SampleRows(fb[1]) :
          65535 \in render_plane(fb[1].planes[i], fb[1].xram, fb[1].w, fb[1].h, x, y).reads

-----------------------------------------------------------------------------
(* Display positions looked at in a published buffer *)
DisplayColumns == {0, 5, 6, 639}
DisplayRows == {1, 2, 5, 359, 360, 479}

(* The four bytes of the buffer at display pixel (X, Y) *)
DisplayPixel(f, X, Y) == [c \in 0..3 |-> display(f, (Y * 640 + X) * 4 + c)]

(* R, G, B, A of a colour: its bits 31..24, 23..16, 15..8 and 7..0 *)
Channels(pixel) ==
    [c \in 0..3 |-> CASE c = 0 -> pixel[1] \div 256
                      [] c = 1 -> pixel[1] % 256
                      [] c = 2 -> pixel[2] \div 256
                      [] c = 3 -> pixel[2] % 256]

(* C28: with sx = 640 / cw and sy = 480 / ch, display pixel (X, Y) of a     *)
(* published buffer holds R, G, B, A of canvas pixel (X div sx, Y div sy)   *)
(* when Y < ch * sy, and four zero bytes when Y >= ch * sy.                 *)
C28_Upscale ==
    FrameShown =>
        LET f == fb[1]
            sx == 640 \div f.w
            sy == 480 \div f.h
        IN \A X \in DisplayColumns, Y \in DisplayRows :
              DisplayPixel(f, X, Y) =
                 IF Y < f.h * sy
                 THEN Channels(canvas_pixel(f, X \div sx, Y \div sy))
                 ELSE [c \in 0..3 |-> 0]

(* A 320x180 frame, upscaled by two, with green in display row 359, red in  *)
(* an odd column next to another colour, and zeros in row 360.              *)
C28_Witness ==
    /\ FrameShown
    /\ fb[1].w = 320 /\ fb[1].h = 180
    /\ DisplayPixel(fb[1], 0, 359) = [c \in 0..3 |-> IF c \in {1, 3} THEN 255 ELSE 0]
    /\ DisplayPixel(fb[1], 5, 1) = [c \in 0..3 |-> IF c \in {0, 3} THEN 255 ELSE 0]
    /\ DisplayPixel(fb[1], 5, 1) # DisplayPixel(fb[1], 6, 1)
    /\ DisplayPixel(fb[1], 0, 360) = [c \in 0..3 |-> 0]

-----------------------------------------------------------------------------
(* The XRAM mirror (checked under Spec)                                     *)

(* The RIA XRAM as it was when j transactions had been processed *)
XramAfterTxn(j) ==
    IF j = 0 THEN XramBeforeTxn(1) ELSE log[j].post.xram

(* The mirror holds the RW0/RW1 writes of some prefix of the transactions *)
MirrorIsPrefix == \E j \in 0..Len(log) : vga.xram = XramAfterTxn(j)

(* C25: the XRAM mirror changes only when the VGA handles an Xram event,    *)
(* which stores the event's data at its address; the mirror always equals   *)
(* the RIA XRAM as it was after some prefix of the RW0/RW1 writes; and when *)
(* no event is waiting it equals the RIA XRAM.                              *)
C25_MirrorFollowsWrites ==
    /\ [](MirrorIsPrefix /\ (pix = <<>> => vga.xram = ria.xram))
    /\ [][vga'.xram # vga.xram =>
            /\ pix # <<>> /\ IsXramEvent(Head(pix)) /\ pix' = Tail(pix)
            /\ vga'.xram = Put(vga.xram, Head(pix).addr, Head(pix).data)]_vars

(* The mirror holds a first write and lags the RIA XRAM by a second write   *)
(* whose event is waiting.                                                  *)
C25_Witness ==
    /\ vga.xram # Zeroes
    /\ vga.xram # ria.xram
    /\ pix # <<>> /\ IsXramEvent(Head(pix))
    /\ \E j \in 1..(Len(log) - 1) : vga.xram = XramAfterTxn(j)

-----------------------------------------------------------------------------
(* The framebuffer mutex.  A FrameSync is handled in steps: the frame is    *)
(* rendered into the Vga's own canvas_buf and a local display vector, the   *)
(* mutex is taken, the vector is moved into the shared framebuffer, the     *)
(* guard is dropped at the end of the `if let`, and handle_event then       *)
(* counts the frame and sends the Vsync.  The GUI thread locks, clones and  *)
(* unlocks on every repaint.                                                *)

(* Any event but a FrameSync is handled in one step, as VgaRecv does. *)
VgaEvent ==
    /\ pix # <<>>
    /\ Head(pix).type # "FrameSync"
    /\ VgaRecv

(* recv() yields a FrameSync: handle_event enters render_frame. *)
VgaFrameSync ==
    /\ vga_pc = "run"
    /\ pix # <<>>
    /\ Head(pix).type = "FrameSync"
    /\ pix' = Tail(pix)
    /\ vga_pc' = "render"
    /\ UNCHANGED <<overflow_checks, trace, idx, ria, ria_pc, pix_open, back, back_open,
                   vga, fb, log, pix_sent, sent_by, vga_log, fb_mutex, pixels>>
    /\ UNCHANGED fn_call

(* render_frame up to the lock: planes composed into canvas_buf, upscaled   *)
(* into the local `display`; nothing shared is touched.                     *)
VgaRender ==
    /\ vga_pc = "render"
    /\ vga_pc' = "lock"
    /\ UNCHANGED <<overflow_checks, trace, idx, ria, ria_pc, pix, pix_open, back, back_open,
                   vga, fb, log, pix_sent, sent_by, vga_log, fb_mutex, pixels>>
    /\ UNCHANGED fn_call

(* self.framebuffer.lock() returns once no other thread holds the mutex. *)
VgaLock ==
    /\ vga_pc = "lock"
    /\ fb_mutex = "free"
    /\ fb_mutex' = "vga"
    /\ vga_pc' = "store"
    /\ UNCHANGED <<overflow_checks, trace, idx, ria, ria_pc, pix, pix_open, back, back_open,
                   vga, fb, log, pix_sent, sent_by, vga_log, pixels>>
    /\ UNCHANGED fn_call

(* Mutant of VgaStore: the guard outlives render_frame. *)
VgaStore_keeps_lock ==
    /\ vga_pc = "store"
    /\ fb' = <<render_frame(vga)>>
    /\ fb_mutex' = fb_mutex
    /\ vga_pc' = "vsync"
    /\ UNCHANGED <<overflow_checks, trace, idx, ria, ria_pc, pix, pix_open, back, back_open,
                   vga, log, pix_sent, sent_by, vga_log, pixels>>
    /\ UNCHANGED fn_call

(* `*fb = display;` and the end of the `if let` block, which drops the guard. *)
VgaStore ==
    /\ vga_pc = "store"
    /\ fb' = <<render_frame(vga)>>
    /\ fb_mutex' = "free"
    /\ vga_pc' = "vsync"
    /\ UNCHANGED <<overflow_checks, trace, idx, ria, ria_pc, pix, pix_open, back, back_open,
                   vga, log, pix_sent, sent_by, vga_log, pixels>>
    /\ UNCHANGED fn_call

(* Back in handle_event: the frame is counted and the Vsync sent. *)
VgaVsync ==
    /\ vga_pc = "vsync"
    /\ LET h == handle_event(vga, FrameSync)
       IN /\ vga' = h.vga
          /\ back' = IF ria_pc \in {"done", "panicked"} THEN back ELSE back \o h.out
          /\ vga_log' = Append(vga_log, [event |-> FrameSync, pre |-> vga, out |-> h.out])
    /\ vga_pc' = "run"
    /\ UNCHANGED <<overflow_checks, trace, idx, ria, ria_pc, pix, pix_open, back_open,
                   fb, log, pix_sent, sent_by, fb_mutex, pixels>>
    /\ UNCHANGED fn_call

(* EmulatorApp::update: self.framebuffer.lock() *)
GuiLock ==
    /\ fb_mutex = "free"
    /\ fb_mutex' = "gui"
    /\ UNCHANGED <<overflow_checks, trace, idx, ria, ria_pc, pix, pix_open, back, back_open,
                   vga, vga_pc, fb, log, pix_sent, sent_by, vga_log, pixels>>
    /\ UNCHANGED fn_call

(* EmulatorApp::update: fb.clone(), and the guard dropped with the `if let` *)
GuiClone ==
    /\ fb_mutex = "gui"
    /\ pixels' = <<fb>>
    /\ fb_mutex' = "free"
    /\ UNCHANGED <<overflow_checks, trace, idx, ria, ria_pc, pix, pix_open, back, back_open,
                   vga, vga_pc, fb, log, pix_sent, sent_by, vga_log>>
    /\ UNCHANGED fn_call

NextLocked ==
    \/ RiaFrame \/ RiaTxn \/ RiaExit
    \/ VgaEvent \/ VgaFrameSync \/ VgaRender \/ VgaLock \/ VgaStore \/ VgaVsync \/ VgaExit
    \/ GuiLock \/ GuiClone

SpecLocked == InitDrain /\ [][NextLocked]_vars

(* The buffers a completed render_frame has produced so far, and the        *)
(* initial all-zero buffer <<>>.                                            *)
Published ==
    {<<>>}
        \cup {<<render_frame(vga_log[k].pre)>> :
                k \in {j \in 1..Len(vga_log) : IsFrameSync(vga_log[j].event)}}
        \cup (IF vga_pc = "vsync" THEN {<<render_frame(vga)>>} ELSE {})

(* C26: the shared framebuffer, and so every clone taken under the lock, is *)
(* always the initial zero buffer or the whole output of one completed      *)
(* render_frame; it changes only in a step of the VGA thread that holds the *)
(* mutex, and then to the whole frame rendered from the Vga as it stands;   *)
(* the VGA thread holds the mutex neither while it renders nor while it     *)
(* sends the Vsync, and the two threads never hold it together.             *)
C26_WholeFramesUnderLock ==
    /\ [](/\ fb \in Published
          /\ pixels # <<>> => pixels[1] \in Published
          /\ fb_mutex = "vga" <=> vga_pc = "store"
          /\ vga_pc \in {"render", "lock", "vsync"} => fb_mutex # "vga")
    /\ [][fb' # fb => fb_mutex = "vga" /\ fb' = <<render_frame(vga)>> /\ pixels' = pixels]_vars
    /\ [][pixels' # pixels => fb_mutex = "gui" /\ pixels' = <<fb>> /\ fb' = fb]_vars

(* The GUI holds the lock, and an older frame in its last clone, while the  *)
(* VGA thread is rendering the next frame after having published a newer.   *)
C26_Witness ==
    /\ fb_mutex = "gui"
    /\ vga_pc = "render"
    /\ fb # <<>>
    /\ pixels # <<>> /\ pixels[1] # <<>> /\ pixels[1] # fb

-----------------------------------------------------------------------------
(* The 32-bit PIX wire format (pix.rs).  A u32 is a pair <<bits 31..16,     *)
(* bits 15..0>>, as for colours.                                            *)

RECURSIVE bit_or(_, _)
bit_or(a, b) ==
    IF a = 0 THEN b
    ELSE IF b = 0 THEN a
    ELSE (IF a % 2 = 1 \/ b % 2 = 1 THEN 1 ELSE 0) + 2 * bit_or(a \div 2, b \div 2)

RECURSIVE bit_and(_, _)
bit_and(a, b) ==
    IF a = 0 \/ b = 0 THEN 0
    ELSE (IF a % 2 = 1 /\ b % 2 = 1 THEN 1 ELSE 0) + 2 * bit_and(a \div 2, b \div 2)

or_u32(a, b) == <<bit_or(a[1], b[1]), bit_or(a[2], b[2])>>

(* (x as u32) << n for n >= 16: the low half is zero, bits beyond 31 fall off *)
shl_u32(x, n) == <<(x * 2^(n - 16)) % 65536, 0>>

(* 0x1000_0000 | device << 29 | channel << 24 | register << 16 | value; the *)
(* debug assertions hold for device < 8 and channel < 16.                   *)
pix_pack(device, channel, register, value) ==
    or_u32(or_u32(or_u32(or_u32(<<4096, 0>>, shl_u32(device, 29)),
                         shl_u32(channel, 24)),
                  shl_u32(register, 16)),
           <<0, value>>)

(* Mutant of pix_unpack: the channel is masked to three bits. *)
pix_unpack_narrow(raw) ==
    IF bit_and(raw[1], 4096) = 0
    THEN <<>>
    ELSE << <<bit_and(shr_as_u8(raw, 29), 7),
              bit_and(shr_as_u8(raw, 24), 7),
              bit_and(shr_as_u8(raw, 16), 255),
              bit_and(raw[2], 65535)>> >>

(* Option<(u8, u8, u8, u16)>: <<>> is None, <<t>> is Some(t) *)
pix_unpack(raw) ==
    IF bit_and(raw[1], 4096) = 0
    THEN <<>>
    ELSE << <<bit_and(shr_as_u8(raw, 29), 7),
              bit_and(shr_as_u8(raw, 24), 15),
              bit_and(shr_as_u8(raw, 16), 255),
              bit_and(raw[2], 65535)>> >>

PixRegisters == {0, 1, 66, 171, 255}

PixValues == {0, 3, 4660, 32768, 65535}

(* Words to unpack that no pix_pack produced, bit 28 clear or set *)
RawWords == {<<hi, lo>> : hi \in {0, 43, 4095, 4096, 12288, 61439, 65535},
                          lo \in {0, 4660, 65535}}

PixCalls ==
    {[fn |-> "pix_pack", args |-> <<d, c, r, v>>, ret |-> <<>>, prev |-> <<>>] :
        d \in 0..7, c \in 0..15, r \in PixRegisters, v \in PixValues}
    \cup {[fn |-> "pix_unpack", args |-> <<raw>>, ret |-> <<>>, prev |-> <<>>] :
            raw \in RawWords}

(* No thread runs: one library call is pending. *)
InitCall(calls) ==
    /\ overflow_checks = "unobserved"
    /\ trace = <<>>
    /\ idx = 0
    /\ ria = RiaNew
    /\ ria_pc = "done"
    /\ pix = <<>>
    /\ pix_open = FALSE
    /\ back = <<>>
    /\ back_open = FALSE
    /\ vga = VgaNew
    /\ vga_pc = "done"
    /\ fb = <<>>
    /\ log = <<>>
    /\ pix_sent = <<>>
    /\ sent_by = <<>>
    /\ vga_log = <<>>
    /\ fb_mutex = "free"
    /\ pixels = <<>>
    /\ fn_call \in calls

Returns(result) ==
    /\ fn_call.ret = <<>>
    /\ fn_call' = [fn_call EXCEPT !.ret = <<result>>]
    /\ UNCHANGED <<overflow_checks, trace, idx, ria, ria_pc, pix, pix_open, back, back_open,
                   vga, vga_pc, fb, log, pix_sent, sent_by, vga_log, fb_mutex, pixels>>

(* The result of the call that returned is passed to the next function. *)
PassedTo(fn, result) ==
    /\ fn_call.ret # <<>>
    /\ fn_call' = [fn |-> fn, args |-> fn_call.ret, ret |-> <<result>>, prev |-> <<fn_call>>]
    /\ UNCHANGED <<overflow_checks, trace, idx, ria, ria_pc, pix, pix_open, back, back_open,
                   vga, vga_pc, fb, log, pix_sent, sent_by, vga_log, fb_mutex, pixels>>

PixPack ==
    /\ fn_call.fn = "pix_pack"
    /\ Returns(pix_pack(fn_call.args[1], fn_call.args[2], fn_call.args[3], fn_call.args[4]))

PixUnpack ==
    /\ fn_call.fn = "pix_unpack"
    /\ Returns(pix_unpack(fn_call.args[1]))

PixUnpackPacked ==
    /\ fn_call.fn = "pix_pack"
    /\ fn_call.ret # <<>>
    /\ PassedTo("pix_unpack", pix_unpack(fn_call.ret[1]))

NextPix == PixPack \/ PixUnpack \/ PixUnpackPacked

InitPix == InitCall(PixCalls)

SpecPix == InitPix /\ [][NextPix]_vars

Returned(fn) == fn_call.fn = fn /\ fn_call.ret # <<>>

(* C27: a packed word has bit 28 set, the device in bits 31..29, the        *)
(* channel in bits 27..24, the register in bits 23..16 and the value in     *)
(* bits 15..0; unpacking a packed word gives back the four fields; and      *)
(* unpacking a word whose bit 28 is clear gives None.                       *)
C27_PackUnpack ==
    /\ Returned("pix_pack") =>
          LET word == fn_call.ret[1]
              a == fn_call.args
          IN /\ (word[1] \div 4096) % 2 = 1
             /\ word[1] \div 8192 = a[1]
             /\ (word[1] \div 256) % 16 = a[2]
             /\ word[1] % 256 = a[3]
             /\ word[2] = a[4]
    /\ Returned("pix_unpack") /\ fn_call.prev # <<>> =>
          fn_call.ret[1] = <<fn_call.prev[1].args>>
    /\ Returned("pix_unpack") /\ (fn_call.args[1][1] \div 4096) % 2 = 0 =>
          fn_call.ret[1] = <<>>

(* The word packed from the largest device, channel, register and value,   *)
(* all 32 bits set, has been unpacked.                                      *)
C27_Witness ==
    /\ Returned("pix_unpack")
    /\ fn_call.prev # <<>>
    /\ fn_call.prev[1].args = <<7, 15, 255, 65535>>
    /\ fn_call.args = <<<<65535, 65535>>>>

-----------------------------------------------------------------------------
(* The MODE write of vga_log[k] is turned down for its plane index, the     *)
(* parity of its config_ptr or its attribute.                               *)
BadOperands(k) ==
    \/ StagedPlaneIdx(k) >= 3
    \/ StagedConfigPtr(k) % 2 = 1
    \/ ~ValidAttr(vga_log[k].event.value, StagedAttr(k))

(* C29: a MODE write with value 1, 2 or 3 whose plane_idx is 3 or more,     *)
(* whose config_ptr is odd or whose attribute is invalid for the mode       *)
(* leaves the three plane slots, the canvas size and the XRAM mirror as     *)
(* they were.                                                               *)
C29_RejectedModeKeepsState ==
    \A k \in 1..Len(vga_log) :
        (IsModeWrite(k) /\ BadOperands(k)) =>
            LET pre == vga_log[k].pre
                post == VgaPost(k)
            IN /\ post.planes = pre.planes
               /\ post.canvas_width = pre.canvas_width
               /\ post.canvas_height = pre.canvas_height
               /\ post.xram = pre.xram

(* An invalid attribute has turned down a MODE 3 write addressed to a slot  *)
(* that holds a plane, slot 0 holding one too.                              *)
C29_Witness ==
    \E k \in 1..Len(vga_log) :
        /\ IsModeWrite(k)
        /\ vga_log[k].event.value = 3
        /\ StagedPlaneIdx(k) = 1
        /\ StagedConfigPtr(k) % 2 = 0
        /\ ~ValidAttr(3, StagedAttr(k))
        /\ vga_log[k].pre.planes[1] # None
        /\ vga_log[k].pre.planes[0] # None
        /\ VgaPost(k).planes[1] = vga_log[k].pre.planes[1]

-----------------------------------------------------------------------------
(* Staging programs: one to three xreg calls run from a new RIA and VGA,    *)
(* every event of which the VGA handles in the run.  MODE commands that     *)
(* succeed, fail, name an unknown mode, or bring no operands; CANVAS;       *)
(* operands staged without a command; a write to staging slot 7; a frame.  *)
StagingCalls ==
    { [op |-> "xreg_vga_mode", values |-> <<3, 3, 256, 1, 10, 200>>],
      [op |-> "xreg_vga_mode", values |-> <<3>>],
      [op |-> "xreg_vga_mode", values |-> <<5, 3, 258, 2>>],
      [op |-> "xreg_vga_mode", values |-> <<2, 5, 256, 1>>],
      [op |-> "xreg_vga_canvas", value |-> 2],
      [op |-> "xreg", device |-> 1, channel |-> 0, addr |-> 2, values |-> <<3, 512>>],
      [op |-> "xreg", device |-> 1, channel |-> 0, addr |-> 7, values |-> <<9>>],
      [op |-> "wait_frames", n |-> 1] }

StagingPrograms ==
    { <<a>> : a \in StagingCalls }
        \cup { <<a, b>> : a \in StagingCalls, b \in StagingCalls }
        \cup { <<a, b, c>> : a \in StagingCalls, b \in StagingCalls, c \in StagingCalls }

StagingStarts ==
    {<<build(calls, TraceBuilder_new(0)), RiaNew>> : calls \in StagingPrograms}

InitStaging == InitWith(StagingStarts)

SpecStaging == InitStaging /\ [][Next]_vars

(* vga_log[k] is a channel-0 write to CANVAS or MODE *)
IsCommand(k) == IsCh0Write(k, 0) \/ IsCh0Write(k, 1)

(* The last CANVAS or MODE write handled before vga_log[k], 0 if none *)
LastCommand(k) ==
    LET earlier == {j \in 1..(k - 1) : IsCommand(j)}
    IN IF earlier = {} THEN 0 ELSE CHOOSE j \in earlier : \A i \in earlier : i <= j

(* What was written to staging slot i between that command and vga_log[k]:  *)
(* the last value, 0 if there was no write                                  *)
StagedSince(k, i) ==
    LET writes == {j \in (LastCommand(k) + 1)..(k - 1) : IsCh0Write(j, i)}
    IN IF writes = {} THEN 0
       ELSE vga_log[CHOOSE j \in writes : \A n \in writes : n <= j].event.value

(* C30: after a channel-0 write to register 0 or 1, whatever its value and  *)
(* outcome, the eight staging slots are zero; slots 0 and 1 are zero after  *)
(* every handled event; and the operands a MODE write finds staged are      *)
(* those written since the previous CANVAS or MODE write, zero where none   *)
(* was written.                                                             *)
C30_StagingCleared ==
    \A k \in 1..Len(vga_log) :
        /\ IsCommand(k) => StagingClear(VgaPost(k))
        /\ VgaPost(k).xregs[0] = 0 /\ VgaPost(k).xregs[1] = 0
        /\ IsCh0Write(k, 1) =>
              \A i \in 2..7 : vga_log[k].pre.xregs[i] = StagedSince(k, i)

(* A MODE 3 write that brought no operands was handled after a MODE write   *)
(* of an unknown mode had found config_ptr 258 staged: it programmed plane  *)
(* 0 at config_ptr 0.                                                       *)
C30_Witness ==
    \E k \in 1..Len(vga_log) :
        /\ IsCh0Write(k, 1)
        /\ vga_log[k].event.value = 3
        /\ LastCommand(k) > 0
        /\ vga_log[LastCommand(k)].event.value = 5
        /\ vga_log[LastCommand(k)].pre.xregs[3] = 258
        /\ vga_log[k].pre.xregs[3] = 0
        /\ VgaPost(k).planes[0] # None
        /\ VgaPost(k).planes[0].config_ptr = 0

-----------------------------------------------------------------------------
(* Reconfigured scenes: planes are programmed, a frame is shown, one byte   *)
(* of the configuration structure of slot 0 or 1 is rewritten through       *)
(* portal 0 (x_wrap, x_pos, width, data_ptr), and the next frame is shown.  *)
ReconfigLayers ==
    { <<"bitmap8">>, <<"text">>, <<"tiles">>, <<"mono_wrap", "bitmap8">> }

(* <<offset in the structure, new byte>> *)
ReconfigEdits == { <<0, 1>>, <<2, 5>>, <<6, 2>>, <<10, 2>> }

(* wait_frames(1), a read that shows the frame, set_addr0 and a write to    *)
(* RW0, wait_frames(1) and a read that shows the next frame                 *)
ReconfigEnding(slot, edit) ==
    LET at == ConfigAt(slot) + edit[1]
    IN <<R(4096, 1), W(65510, at % 256, 0), W(65511, at \div 256, 0),
         W(RW0, edit[2], 0), R(4096, 1)>>

ReconfigStarts ==
    { LET b == build_scene(SceneCalls(canvas, layers), TraceBuilder_new(0))
      IN StartAfter(b.trace, stamp(ReconfigEnding(slot, edit), b.cycle)) :
        canvas \in {1, 4}, layers \in ReconfigLayers, slot \in {0, 1},
        edit \in ReconfigEdits }

InitReconfig == InitAt(ReconfigStarts)

SpecReconfig == InitReconfig /\ [][Next]_vars

(* The configuration structure of plane p as the XRAM mirror holds it *)
ConfigInXram(xram, p) ==
    CASE p.mode = 1 -> Mode1Config_from_xram(xram, p.config_ptr)
      [] p.mode = 2 -> Mode2Config_from_xram(xram, p.config_ptr)
      [] OTHER -> Mode3Config_from_xram(xram, p.config_ptr)

(* The frame shown before the last one, <<>> if there is none *)
EarlierFrame ==
    LET syncs == {k \in 1..(Len(vga_log) - 1) : IsFrameSync(vga_log[k].event)}
    IN IF syncs = {} THEN <<>>
       ELSE <<render_frame(vga_log[CHOOSE k \in syncs : \A j \in syncs : j <= k].pre)>>

(* C31: when a frame has been shown, each plane in it was rendered with the *)
(* configuration structure that the XRAM mirror held at its config_ptr at   *)
(* that FrameSync, and with the format, scanline window and config_ptr the  *)
(* slot was programmed with.                                                *)
C31_ConfigReadEachFrame ==
    FrameShown =>
        \A i \in 0..2 :
            LET drawn == fb[1].planes[i]
                programmed == vga_log[1].pre.planes[i]
            IN /\ drawn.mode = programmed.mode
               /\ programmed # None =>
                    /\ drawn.config = ConfigInXram(vga.xram, programmed)
                    /\ drawn.format = programmed.format
                    /\ drawn.scanline_begin = programmed.scanline_begin
                    /\ drawn.scanline_end = programmed.scanline_end
                    /\ drawn.config_ptr = programmed.config_ptr

(* Two frames were shown with no MODE command between them; the x_pos byte  *)
(* of plane 0 was rewritten between them, and the second frame has another  *)
(* pixel than the first at a sampled place.                                 *)
C31_Witness ==
    /\ FrameShown
    /\ EarlierFrame # <<>>
    /\ \A k \in 1..Len(vga_log) : vga_log[k].event.type # "Reg"
    /\ fb[1].planes[0] # None
    /\ fb[1].planes[0].config # vga.planes[0].config
    /\ cfg_i16(fb[1].planes[0].config, 2) # cfg_i16(EarlierFrame[1].planes[0].config, 2)
    /\ \E x \in SampleColumns(fb[1]), y \in SampleRows(fb[1]) :
          canvas_pixel(fb[1], x, y) # canvas_pixel(EarlierFrame[1], x, y)

-----------------------------------------------------------------------------
(* C32: the RIA drains the backchannel in every transaction it processes:   *)
(* when process() returns the backchannel is empty, and a Vsync that was    *)
(* waiting in it is in reg[VSYNC].                                          *)
C32_DrainedEveryTransaction ==
    [][idx' = idx + 1 =>
          /\ back' = <<>>
          /\ Vsyncs(back) # <<>> =>
                ria'.regs[3] = Vsyncs(back)[Len(Vsyncs(back))].frame]_vars

-----------------------------------------------------------------------------
(* Traces with transactions outside the RIA window: the IRQ enable, a zero  *)
(* STEP0 and an RW0 write (after which reg[RW0] lags the XRAM byte at       *)
(* ADDR0), and reads and writes below 0xFFE0, at once or a frame later.     *)
OutsideItems ==
    { W(IRQ, 1, 0), W(65509, 0, 0), W(RW0, 66, 0),
      W(4096, 9, 0), W(4096, 9, 1), R(4096, 1), R(65503, 0) }

OutsideStarts == {<<stamp(items, 0), RiaNew>> : items \in [1..MaxTxn -> OutsideItems]}

InitOutside == InitWith(OutsideStarts)

SpecOutside == InitOutside /\ [][Next]_vars

(* The next transaction of the trace is outside the RIA window *)
NextIsOutside == idx < Len(trace) /\ trace[idx + 1].addr < 65504

(* The events the step has sent on the PIX channel *)
SentInStep == SubSeq(pix_sent', Len(pix_sent) + 1, Len(pix_sent'))

KeepsStacksAndEnable ==
    /\ ria'.xram = ria.xram
    /\ ria'.xstack = ria.xstack
    /\ ria'.xstack_ptr = ria.xstack_ptr
    /\ ria'.irq_enabled = ria.irq_enabled
    /\ \A k \in 1..Len(SentInStep) : IsFrameSync(SentInStep[k])
    /\ idx' = idx + 1 => log'[Len(log')].ret = trace[idx + 1].data

(* C33 as stated: the register file and the IRQ line are unchanged too. *)
C33_AsClaimed ==
    [][NextIsOutside =>
          /\ KeepsStacksAndEnable
          /\ ria'.regs = ria.regs
          /\ ria'.irq_pin = ria.irq_pin]_vars

(* The step drains a Vsync at a frame boundary *)
DrainsVsync == ria_pc = "poll" /\ Vsyncs(back) # <<>>

(* C33: a transaction below 0xFFE0 returns its data byte, leaves the RIA    *)
(* XRAM, the xstack and its pointer and the IRQ enable byte unchanged and   *)
(* sends no Xram or Reg event; of the register file it changes only         *)
(* reg[RW0] and reg[RW1], refreshed from XRAM at ADDR0 and ADDR1, and       *)
(* reg[VSYNC] when it reaches a frame boundary and drains a Vsync, which    *)
(* also lowers the IRQ line if enable bit 0 is set.                         *)
C33_OutsideRia ==
    [][NextIsOutside =>
          /\ KeepsStacksAndEnable
          /\ \A i \in 0..31 :
                ria'.regs[i] # ria.regs[i] =>
                    \/ i = 3 /\ DrainsVsync
                             /\ ria'.regs[3] = Vsyncs(back)[Len(Vsyncs(back))].frame
                    \/ i = 4 /\ idx' = idx + 1 /\ ria'.regs[4] = Get(ria.xram, addr0(ria))
                    \/ i = 8 /\ idx' = idx + 1 /\ ria'.regs[8] = Get(ria.xram, addr1(ria))
          /\ ria'.irq_pin # ria.irq_pin =>
                DrainsVsync /\ ria.irq_enabled % 2 = 1 /\ ~ria'.irq_pin]_vars

(* A transaction below 0xFFE0 reached a frame boundary and drained a Vsync  *)
(* into reg[VSYNC], lowering the IRQ line; it returned its data byte.       *)
C33_Witness ==
    \E k \in 2..Len(log) :
        /\ log[k].txn.addr < 65504
        /\ log[k].frame
        /\ log[k - 1].post.irq_pin /\ ~log[k].post.irq_pin
        /\ log[k].post.regs[3] # log[k - 1].post.regs[3]
        /\ log[k].ret = log[k].txn.data

-----------------------------------------------------------------------------
(* OP traces: pushes and OP writes (zxstack, xreg, unknown codes, exit), at *)
(* once or a frame later, on an empty xstack or one that holds the bytes of *)
(* a CANVAS xreg.                                                           *)
OpItems ==
    { W(65516, 66, 0), W(OP, 0, 0), W(OP, 0, 1), W(OP, 1, 0), W(OP, 2, 0),
      W(OP, 254, 1), W(OP, 255, 0), R(4096, 0) }

OpFills == { <<>>, xreg_bytes(1, 0, 0, <<3>>) }

OpStarts ==
    {<<stamp(items, Len(bytes)), Pushed(bytes)>> :
        items \in [1..MaxTxn -> OpItems], bytes \in OpFills}

InitOp == InitWith(OpStarts)

SpecOp == InitOp /\ [][Next]_vars

(* Registers 0x10..0x17 hold NOP, BRA +0, LDA #lo, LDX #hi, RTS *)
Returned_ax(r, val) ==
    /\ r.regs[16] = 234 /\ r.regs[17] = 128 /\ r.regs[18] = 0
    /\ r.regs[19] = 169 /\ r.regs[20] = val % 256
    /\ r.regs[21] = 162 /\ r.regs[22] = val \div 256
    /\ r.regs[23] = 96

(* C34 as stated: an OP write other than 0x01 sends no PIX event at all. *)
C34_AsClaimed ==
    \A k \in 1..Len(log) :
        LET e == log[k] IN
        IsWrite(e, OP) =>
            /\ e.txn.data = 0 =>
                  /\ e.post.regs[12] = 0
                  /\ e.post.xstack_ptr = XSTACK_SIZE
                  /\ Returned_ax(e.post, 0)
            /\ e.txn.data \notin {0, 1, 255} =>
                  /\ Returned_ax(e.post, 65535)
                  /\ e.post.xstack_ptr = e.pre.xstack_ptr
                  /\ e.post.xstack = e.pre.xstack
            /\ e.txn.data # 1 => e.sent = <<>> /\ ~e.frame

(* C34: an OP write of 0x00 sets reg[XSTACK] to 0 and sp to 512 and         *)
(* publishes 0; an OP write other than 0x00, 0x01, 0xFF publishes 0xFFFF    *)
(* and leaves sp and the xstack; publishing v sets registers 0x10..0x17 to  *)
(* EA 80 00 A9 lo(v) A2 hi(v) 60; an OP write other than 0x01 sends no Xram *)
(* or Reg event, only the FrameSync of a frame boundary it reaches.         *)
C34_OpCodes ==
    \A k \in 1..Len(log) :
        LET e == log[k] IN
        IsWrite(e, OP) =>
            /\ e.txn.data = 0 =>
                  /\ e.post.regs[12] = 0
                  /\ e.post.xstack_ptr = XSTACK_SIZE
                  /\ Returned_ax(e.post, 0)
            /\ e.txn.data \notin {0, 1, 255} =>
                  /\ Returned_ax(e.post, 65535)
                  /\ e.post.xstack_ptr = e.pre.xstack_ptr
                  /\ e.post.xstack = e.pre.xstack
            /\ e.txn.data # 1 => OnlyFrameSync(k)

(* OP 0x00 emptied an xstack of five bytes after OP 0xFE, written at a      *)
(* frame boundary, had published 0xFFFF and left the five bytes.            *)
C34_Witness ==
    \E k \in 2..Len(log) :
        /\ IsWrite(log[k], OP) /\ log[k].txn.data = 0
        /\ log[k].pre.xstack_ptr = XSTACK_SIZE - 5
        /\ log[k].post.xstack_ptr = XSTACK_SIZE
        /\ log[k].pre.regs[20] = 255
        /\ log[k].post.regs[20] = 0
        /\ IsWrite(log[k - 1], OP) /\ log[k - 1].txn.data = 254 /\ log[k - 1].frame

-----------------------------------------------------------------------------
(* The RIA loop of main.rs run on its own over txns[lo..], the backchannel  *)
(* open and never holding a message: [ria, sent].                           *)
RECURSIVE run_undrained(_, _, _)
run_undrained(m, txns, lo) ==
    IF lo > Len(txns) \/ ~m.ria.running THEN m
    ELSE LET txn == txns[lo]
             sync == IF crossed(m.ria, txn) THEN <<FrameSync>> ELSE <<>>
             d == process_dispatch(process_frame(m.ria, txn), txn, FALSE)
         IN run_undrained([ria |-> d.ria, sent |-> m.sent \o sync \o d.sent], txns, lo + 1)

Undrained == run_undrained([ria |-> RiaNew, sent |-> <<>>], trace, 1)

IsPrefix(s, t) == Len(s) <= Len(t) /\ s = SubSeq(t, 1, Len(s))

BothDone == ria_pc \in {"done", "panicked"} /\ vga_pc = "done"

(* The framebuffer after the events of `sent` were handled by a new VGA *)
LastFrameOf(sent) ==
    LET ks == {k \in 1..Len(sent) : IsFrameSync(sent[k])}
    IN IF ks = {} THEN <<>>
       ELSE LET last == CHOOSE k \in ks : \A n \in ks : n <= k
            IN <<render_frame(handle_all([vga |-> VgaNew, out |-> <<>>],
                                         sent, 1, last - 1).vga)>>

(* C35: in every interleaving the PIX events sent so far are a prefix of    *)
(* those the RIA sends over the trace when it never finds a backchannel     *)
(* message; once both threads have finished the VGA has received exactly    *)
(* that sequence, its XRAM mirror, canvas size and plane slots are those of *)
(* a VGA that handled it in order, and the framebuffer is the frame of its  *)
(* last FrameSync.                                                          *)
C35_PixIndependentOfBackchannel ==
    /\ IsPrefix(pix_sent, Undrained.sent)
    /\ IsPrefix(Received, pix_sent)
    /\ BothDone =>
          LET v == handle_all([vga |-> VgaNew, out |-> <<>>],
                              Undrained.sent, 1, Len(Undrained.sent)).vga
          IN /\ Received = Undrained.sent
             /\ vga.xram = v.xram
             /\ vga.canvas_width = v.canvas_width /\ vga.canvas_height = v.canvas_height
             /\ vga.planes = v.planes
             /\ fb = LastFrameOf(Undrained.sent)

(* Both threads have finished a run of two frames in which the RIA drained  *)
(* a Vsync (its reg[VSYNC] differs from that of the undrained run) and the  *)
(* last frame shows a written XRAM byte.                                    *)
C35_Witness ==
    /\ BothDone
    /\ ria.regs[3] # Undrained.ria.regs[3]
    /\ LastFrameSync > 1
    /\ fb # <<>> /\ fb[1].xram # Zeroes

-----------------------------------------------------------------------------
(* The top of stack mirror: pushes, pops and OP codes on an empty stack,   *)
(* on a stack holding one xreg batch and on a full stack, with resets      *)
(* between transactions.                                                   *)

MirrorItems ==
    { W(65516, 66, 1), R(65516, 0), W(OP, 0, 0), W(OP, 1, 0), W(OP, 2, 0),
      W(OP, 255, 0) }

MirrorFills ==
    { <<>>, xreg_bytes(1, 0, 0, <<3>>), [k \in 1..XSTACK_SIZE |-> FillByte(k)] }

MirrorStarts ==
    {<<stamp(items, Len(bytes)), Pushed(bytes)>> :
        items \in [1..MaxTxn -> MirrorItems], bytes \in MirrorFills}

InitMirror == InitWith(MirrorStarts)

SpecMirror == InitMirror /\ [][NextWithReset]_vars

Mirrored(r) == r.regs[12] = Get(r.xstack, r.xstack_ptr)

(* C36: after every bus transaction and after every reset reg[XSTACK]      *)
(* (index 0x0C) equals xstack[sp]: across pushes, also those dropped at     *)
(* sp = 0, pops, zxstack, accepted and rejected xreg and unknown OP codes.  *)
C36_MirrorIsTopOfStack ==
    /\ Mirrored(ria)
    /\ \A k \in 1..Len(log) : ~log[k].panic => Mirrored(log[k].post)

(* A run in which a push was dropped at sp = 0, an xreg was accepted or    *)
(* rejected, or an unknown OP code was written, followed by a reset.        *)
C36_Witness ==
    \E k \in 1..Len(log) : \E j \in 1..(k - 1) :
        /\ log[k].kind = "reset"
        /\ log[k].pre.xstack_ptr < XSTACK_SIZE
        /\ log[j].kind = "txn"
        /\ \/ IsWrite(log[j], 65516) /\ log[j].pre.xstack_ptr = 0
           \/ IsWrite(log[j], OP) /\ log[j].txn.data \in {1, 2}

-----------------------------------------------------------------------------
(* The backchannel outlives the RIA loop *)

ExitProcessed == \E k \in 1..Len(log) : IsWrite(log[k], OP) /\ log[k].txn.data = 255

(* C37: the Vga keeps its backchannel sender until the Ria has dropped the  *)
(* PIX sender, so the Ria never polls a disconnected backchannel and its    *)
(* running flag is cleared only by the exit OP.                             *)
C37_BackchannelOutlivesRia ==
    /\ pix_open => back_open
    /\ ria_pc \in {"run", "poll"} => back_open
    /\ ~ria.running => ExitProcessed

(* The exit OP ended a run that had polled the backchannel and still had   *)
(* transactions left, and the Vga has dropped its sender since.             *)
C37_Witness ==
    /\ ~ria.running
    /\ idx < Len(trace)
    /\ \E k \in 1..Len(log) : log[k].frame
    /\ ~pix_open
    /\ ~back_open

-----------------------------------------------------------------------------
(* Device numbers: programs of xreg calls addressed to devices 0, 1 and 7,  *)
(* and to the invalid device 8.                                             *)

DeviceNumbers == {0, 1, 7}

DeviceCalls ==
    { [op |-> "xreg", device |-> d, channel |-> 0, addr |-> 0, values |-> <<1>>] :
        d \in DeviceNumbers \cup {8} }
    \cup
    { [op |-> "xreg", device |-> d, channel |-> 0, addr |-> 1,
       values |-> <<3, 3, 256, 1, 10, 200>>] : d \in DeviceNumbers }
    \cup { [op |-> "wait_frames", n |-> 1] }

DevicePrograms == UNION {[1..n -> DeviceCalls] : n \in 1..MaxCalls}

DeviceStarts ==
    {<<build(calls, TraceBuilder_new(0)), RiaNew>> : calls \in DevicePrograms}

InitDevice == InitWith(DeviceStarts)

SpecDevice == InitDevice /\ [][Next]_vars

(* The xstack holds a batch that handle_xreg accepts *)
XregAccepted(r) ==
    /\ r.xstack_ptr < XSTACK_SIZE - 3
    /\ (XSTACK_SIZE - r.xstack_ptr - 3) % 2 = 0
    /\ XSTACK_SIZE - r.xstack_ptr - 3 >= 2
    /\ Get(r.xstack, XSTACK_SIZE - 1) <= 7
    /\ Get(r.xstack, XSTACK_SIZE - 2) <= 15

(* The same Ria with another device byte at the bottom of the xstack *)
WithDevice(r, d) == [r EXCEPT !.xstack = Put(r.xstack, XSTACK_SIZE - 1, d)]

(* The Vga as it was left by the i-th event it handled *)
VgaLeftBy(i) == IF i < Len(vga_log) THEN vga_log[i + 1].pre ELSE vga

(* C38: the device byte of an accepted xreg batch has no effect on what is  *)
(* emitted: the batch with any other device number below 8 sends the same   *)
(* Reg events, and the Vga stages and executes the events of a channel-0    *)
(* batch whatever device it was addressed to.                               *)
C38_DeviceIgnored ==
    \A k \in 1..Len(log) :
        LET e == log[k] IN
        (IsWrite(e, OP) /\ e.txn.data = 1 /\ XregAccepted(e.pre)) =>
            /\ \A d \in 0..7 : \A checks \in BOOLEAN :
                /\ process_dispatch(WithDevice(e.pre, d), e.txn, checks).sent = e.sent
                /\ process_dispatch(WithDevice(e.pre, d), e.txn, checks).ret = e.ret
            /\ e.sent # <<>>
            /\ \A i \in 1..Len(vga_log) :
                (sent_by[i] = k /\ pix_sent[i].type = "Reg") =>
                    /\ vga_log[i].event = pix_sent[i]
                    /\ pix_sent[i].register = 0 =>
                        /\ vga_log[i].out = <<Ack>>
                        /\ VgaLeftBy(i).canvas_width = canvas_size(pix_sent[i].value)[1]
                    /\ pix_sent[i].register = 1 =>
                        /\ vga_log[i].out = <<Ack>>
                        /\ VgaLeftBy(i).planes[1] # None
                    /\ pix_sent[i].register \in 2..7 =>
                        VgaLeftBy(i).xregs[pix_sent[i].register] = pix_sent[i].value

(* The Vga has executed a CANVAS batch addressed to device 7 and a MODE     *)
(* batch addressed to device 0.                                             *)
C38_Witness ==
    \E i, j \in 1..Len(vga_log) :
        /\ vga_log[i].event.type = "Reg" /\ vga_log[i].event.register = 0
        /\ Get(log[sent_by[i]].pre.xstack, XSTACK_SIZE - 1) = 7
        /\ vga.canvas_width = 320
        /\ vga_log[j].event.type = "Reg" /\ vga_log[j].event.register = 1
        /\ Get(log[sent_by[j]].pre.xstack, XSTACK_SIZE - 1) = 0
        /\ vga.planes[1] # None

-----------------------------------------------------------------------------
(* Register range of an accepted batch *)

(* C39: for every accepted xreg batch each register number start_reg + k,   *)
(* 0 <= k < count, fits in 8 bits: start_reg + count - 1 <= 255, and the    *)
(* write completes without an overflow.                                     *)
C39_AsClaimed ==
    \A k \in 1..Len(log) :
        LET e == log[k]
            start_reg == Get(e.pre.xstack, XSTACK_SIZE - 3)
            count == (XSTACK_SIZE - e.pre.xstack_ptr - 3) \div 2
        IN (IsWrite(e, OP) /\ e.txn.data = 1 /\ XregAccepted(e.pre)) =>
            /\ start_reg + count - 1 <= 255
            /\ ~e.panic
            /\ \A i \in 1..Len(e.sent) : e.sent[i].register = start_reg + count - i

-----------------------------------------------------------------------------
(* Register events that are not commands: programs that stage registers     *)
(* 2..3, write registers 7..8, and address channel 15, next to a CANVAS and *)
(* a MODE command that give the Vga a canvas and a plane to lose.           *)

RegCalls ==
    { [op |-> "xreg_vga_canvas", value |-> 1],
      [op |-> "xreg_vga_mode", values |-> <<3, 3, 256, 1, 10, 200>>],
      [op |-> "xreg", device |-> 1, channel |-> 0, addr |-> 2, values |-> <<5, 6>>],
      [op |-> "xreg", device |-> 1, channel |-> 0, addr |-> 7, values |-> <<9, 10>>],
      [op |-> "xreg", device |-> 1, channel |-> 15, addr |-> 0, values |-> <<4, 3, 7>>],
      [op |-> "wait_frames", n |-> 1] }

(* A program: a command that sets the Vga up, then at most MaxCalls calls *)
RegSetups == {c \in RegCalls : c.op \in {"xreg_vga_canvas", "xreg_vga_mode"}}

RegPrograms ==
    {<<first>> \o calls :
        first \in RegSetups, calls \in UNION {[1..n -> RegCalls] : n \in 1..MaxCalls}}

RegStarts ==
    {<<build(calls, TraceBuilder_new(0)), RiaNew>> : calls \in RegPrograms}

InitRegs == InitWith(RegStarts)

SpecRegs == InitRegs /\ [][Next]_vars

(* C40: a channel-0 Reg event for register 2..7 only stores its value in    *)
(* that staging slot, a channel-0 Reg event for a register >= 8 changes     *)
(* nothing, and a Reg event on another channel changes nothing: canvas      *)
(* size, planes and XRAM mirror stay as they were and nothing is sent on    *)
(* the backchannel.                                                         *)
C40_NonCommandRegs ==
    \A i \in 1..Len(vga_log) :
        LET ev == vga_log[i].event
            pre == vga_log[i].pre
        IN ev.type = "Reg" =>
            /\ (ev.channel = 0 /\ ev.register \in 2..7) =>
                /\ VgaLeftBy(i) = [pre EXCEPT !.xregs[ev.register] = ev.value]
                /\ vga_log[i].out = <<>>
            /\ (ev.channel # 0 \/ ev.register >= 8) =>
                /\ VgaLeftBy(i) = pre
                /\ vga_log[i].out = <<>>

(* With plane 1 programmed, the Vga has handled a register 7, a register 8 *)
(* and a channel 15 register 0 and register 1 event.                       *)
C40_Witness ==
    /\ vga.planes[1] # None
    /\ \E i \in 1..Len(vga_log) :
        /\ vga_log[i].event.type = "Reg"
        /\ vga_log[i].event.channel = 0
        /\ vga_log[i].event.register = 8
        /\ vga_log[i].pre.planes[1] # None
    /\ \E i \in 1..Len(vga_log) :
        /\ vga_log[i].event.type = "Reg"
        /\ vga_log[i].event.channel = 0
        /\ vga_log[i].event.register = 7
        /\ vga.xregs[7] = 9
    /\ \E i, j \in 1..Len(vga_log) :
        /\ vga_log[i].event.type = "Reg" /\ vga_log[j].event.type = "Reg"
        /\ vga_log[i].event.channel = 15 /\ vga_log[j].event.channel = 15
        /\ vga_log[i].event.register = 0 /\ vga_log[j].event.register = 1
        /\ vga_log[i].pre.planes[1] # None

====
